---- MODULE Spec2Model ----
(***************************************************************************)
(* The Asteroids game of src/index.tsx: the GameState held by useReducer,  *)
(* the reducer's eight actions and the gameLoop pipeline (Spec, LiveSpec); *)
(* the frame loop of GameBoard (FrameSpec); and the entity engine of       *)
(* src/engine, whose coreReducer wraps a game reducer (EngineSpec).        *)
(*                                                                         *)
(* Numbers.  The source computes in IEEE doubles; the model computes in    *)
(* integers:                                                               *)
(*   - a length (x, y, radius, velocity per tick) is counted in 1/PX of a  *)
(*     pixel, PX = FPS, so that a speed given per second is a whole        *)
(*     number of units per tick;                                           *)
(*   - an angle is counted in turn steps of TURN_SPEED / FPS = 3 degrees,  *)
(*     the amount the ship turns in one tick (UP = 90 degrees = 30);       *)
(*   - Math.cos / Math.sin are a table in thousandths (TrigOne = 1000);    *)
(*   - Math.random() is a value p / 100, p in 0 .. 99, read from           *)
(*     RandomStream at a position the tick chooses;                        *)
(*   - a particle's alpha and decay are counted in thousandths.            *)
(* A quotient is rounded to the nearest unit (RDiv); the friction of       *)
(* moveShip is rounded step by step as IEEE arithmetic rounds (friction).  *)
(***************************************************************************)
EXTENDS Integers, Sequences, FiniteSets, TLC

\* state: the GameState of useReducer; ticksLeft, inputsLeft: what is left of
\* the run's bounds; frame: the animation frames requested by GameBoard;
\* engine: the objects of the entity engine and the state its reducer holds
VARIABLES state, ticksLeft, inputsLeft, frame, engine

vars == <<state, ticksLeft, inputsLeft, frame, engine>>

----------------------------------------------------------------------------
(* Constants of src/index.tsx, lines 81-109. *)

FPS == 60
CANVAS_width == 700
CANVAS_height == 500
SHIP_SIZE == 20
TURN_SPEED == 180
SHIP_THRUST == 5
\* FRICTION = 0.7, in hundredths
FRICTION == 70
ASTEROIDS_NUM == 3
ASTEROIDS_SIZE == <<100, 50, 25>>
ASTEROIDS_SPEED == 50
ASTEROIDS_VERT == 10
\* ASTEROID_JAG = 0.3, in hundredths
ASTEROID_JAG == 30
SHIP_INVINCIBLE_DURATION == 3
\* SHIP_BLINK_DURATION = 0.3, in tenths
SHIP_BLINK_DURATION == 3
PARTICLE_TRAIL == 2
PARTICLE_COUNT == 10
PARTICLE_GRAVITY == 0
PARTICLE_MAX_SPEED == 2
\* PARTICLE_FRICTION = 0.95, in hundredths
PARTICLE_FRICTION == 95
\* PARTICLE_DECAY_MIN = 0.01 and PARTICLE_DECAY_MAX = 0.05, in thousandths
PARTICLE_DECAY_MIN == 10
PARTICLE_DECAY_MAX == 50
LASER_SPEED == 500
POINTS == <<20, 50, 100>>

----------------------------------------------------------------------------
(* Bounds of the model. *)

\* gameLoop ticks a run takes in the Playing mode (Spawning ends by itself
\* and a finished game only fades its explosions out)
MaxTicks == 3
\* input actions (key presses and releases) a run takes
MaxInputs == 2
\* animation frames GameBoard requests in a run of the frame loop
MaxFrames == 40
\* times GameBoard is mounted in a run of the frame loop
MaxMounts == 2
\* actions dispatched to the engine's reducer in a run
MaxDispatches == 3

\* explosions in the list of a game that is left to tick
MaxExplosions == 3

----------------------------------------------------------------------------
(* Arithmetic. *)

\* units per pixel
PX == FPS

\* turn steps in a full turn (2 * PI) and in a quarter turn
TURN == (360 * FPS) \div TURN_SPEED
UP == TURN \div 4

Abs(a) == IF a < 0 THEN -a ELSE a

\* a / b rounded to the nearest integer, b > 0
RDiv(a, b) == (2 * a + b) \div (2 * b)

\* Math.ceil(a / b), b > 0
CeilDiv(a, b) == -((-a) \div b)

\* a / b rounded to the nearest integer and, half way between two, to the
\* even one, as IEEE arithmetic rounds; a >= 0, b > 0
RDivEven(a, b) ==
  LET q == a \div b
      r == a % b
  IN  IF 2 * r < b THEN q ELSE IF 2 * r > b THEN q + 1 ELSE q + (q % 2)

\* 1000 * cos of 0, 3, .., 90 degrees
CosTable ==
  << 1000, 999, 995, 988, 978, 966, 951, 934, 914, 891, 866, 839, 809, 777,
     743, 707, 669, 629, 588, 545, 500, 454, 407, 358, 309, 259, 208, 156,
     105, 52, 0 >>

TrigOne == CosTable[1]

\* Math.cos and Math.sin of an angle in turn steps, in thousandths
Cos(a) ==
  LET m == a % TURN
  IN  IF m <= UP THEN CosTable[m + 1]
      ELSE IF m <= 2 * UP THEN -CosTable[2 * UP - m + 1]
      ELSE IF m <= 3 * UP THEN -CosTable[m - 2 * UP + 1]
      ELSE CosTable[TURN - m + 1]

Sin(a) == Cos(a - UP)

\* Math.sqrt(dx * dx + dy * dy) < d; the products are formed only when both
\* differences are below d, which keeps them inside TLC's integers
SqrtLess(dx, dy, d) ==
  /\ Abs(dx) < d
  /\ Abs(dy) < d
  /\ dx * dx + dy * dy < d * d

\* Math.random(): hundredths, read from a fixed cyclic stream
RandomStream ==
  << 99, 10, 0, 20, 50, 70, 98, 55, 30, 95, 5, 60, 99, 80, 45, 90, 15, 75,
     35, 85, 25, 65, 40 >>

random(i) == RandomStream[(i % Len(RandomStream)) + 1]

\* the stream positions a tick may start reading from
Seeds == {0, 7}

----------------------------------------------------------------------------
(* Geometry, lines 111-131. *)

distBetweenPointsLess(x1, y1, x2, y2, d) == SqrtLess(x2 - x1, y2 - y1, d)

\* circleCollision that takes circles that touch as colliding
circleCollision_touching(obj1, obj2) ==
  LET radiusSum == obj1.radius + obj2.radius
      xDiff == obj1.x - obj2.x
      yDiff == obj1.y - obj2.y
  IN  \/ SqrtLess(xDiff, yDiff, radiusSum)
      \/ /\ Abs(xDiff) <= radiusSum
         /\ Abs(yDiff) <= radiusSum
         /\ xDiff * xDiff + yDiff * yDiff = radiusSum * radiusSum

circleCollision(obj1, obj2) ==
  LET radiusSum == obj1.radius + obj2.radius
      xDiff == obj1.x - obj2.x
      yDiff == obj1.y - obj2.y
  IN  SqrtLess(xDiff, yDiff, radiusSum)

\* the index of the first element of seq that satisfies Test, 0 when none
\* (Array.prototype.find)
find(seq, Test(_)) ==
  LET hits == {i \in 1..Len(seq) : Test(seq[i])}
  IN  IF hits = {} THEN 0 ELSE CHOOSE i \in hits : \A j \in hits : i <= j

----------------------------------------------------------------------------
(* Entity factories, lines 133-236. *)

createShip ==
  [ x |-> (CANVAS_width * PX) \div 2,
    y |-> (CANVAS_height * PX) \div 2,
    radius |-> (SHIP_SIZE * PX) \div 2,
    angle |-> UP,
    rotation |-> 0,
    thrusting |-> FALSE,
    xVelocity |-> 0,
    yVelocity |-> 0,
    blinkTime |-> 0,
    blinkNum |-> CeilDiv(SHIP_INVINCIBLE_DURATION * 10, SHIP_BLINK_DURATION),
    canShoot |-> TRUE,
    lasers |-> <<>> ]

\* the ship's nose: (4 / 3) * radius along the facing angle
noseX(ship) == ship.x + RDiv(4 * ship.radius * Cos(ship.angle), 3 * TrigOne)
noseY(ship) == ship.y - RDiv(4 * ship.radius * Sin(ship.angle), 3 * TrigOne)

\* createLaser whose velocity is per second, not per tick
createLaser_perSecond(s) ==
  [ x |-> noseX(s.ship),
    y |-> noseY(s.ship),
    xVelocity |-> RDiv(LASER_SPEED * PX * Cos(s.ship.angle), TrigOne),
    yVelocity |-> RDiv(-LASER_SPEED * PX * Sin(s.ship.angle), TrigOne),
    radius |-> 3 * PX,
    distTravelled |-> 0,
    explodeTime |-> 0 ]

createLaser(s) ==
  [ x |-> noseX(s.ship),
    y |-> noseY(s.ship),
    xVelocity |-> RDiv(LASER_SPEED * PX * Cos(s.ship.angle), FPS * TrigOne),
    yVelocity |-> RDiv(-LASER_SPEED * PX * Sin(s.ship.angle), FPS * TrigOne),
    radius |-> 3 * PX,
    distTravelled |-> 0,
    explodeTime |-> 0 ]

\* createAsteroid that rounds the radius down
createAsteroid_roundsDown(x, y, level, stage, r) ==
  LET angle == (random(r) * TURN) \div 100
      vert == (random(r + 1) * (ASTEROIDS_VERT + 1)) \div 100
                + ASTEROIDS_VERT \div 2
      \* (random * ASTEROIDS_SPEED * (1 + 0.1 * level)) / FPS pixels
      speed(p) == RDiv(p * ASTEROIDS_SPEED * (10 + level) * PX, 1000 * FPS)
      sign(p) == IF p < 50 THEN 1 ELSE -1
  IN  [ x |-> x,
        y |-> y,
        xVelocity |-> speed(random(r + 2)) * sign(random(r + 3)),
        yVelocity |-> speed(random(r + 4)) * sign(random(r + 5)),
        radius |-> (ASTEROIDS_SIZE[stage] \div 2) * PX,
        angle |-> angle,
        vert |-> vert,
        stage |-> stage,
        offsets |-> [j \in 1..vert |->
                       (random(r + 5 + j) * 2 * ASTEROID_JAG) \div 100
                         + 100 - ASTEROID_JAG] ]

\* createAsteroid whose vertex count has no floor: Math.random() * (VERT + 1)
createAsteroid_noFloor(x, y, level, stage, r) ==
  LET angle == (random(r) * TURN) \div 100
      vert == (random(r + 1) * (ASTEROIDS_VERT + 1)) \div 100
      speed(p) == RDiv(p * ASTEROIDS_SPEED * (10 + level) * PX, 1000 * FPS)
      sign(p) == IF p < 50 THEN 1 ELSE -1
  IN  [ x |-> x,
        y |-> y,
        xVelocity |-> speed(random(r + 2)) * sign(random(r + 3)),
        yVelocity |-> speed(random(r + 4)) * sign(random(r + 5)),
        radius |-> CeilDiv(ASTEROIDS_SIZE[stage], 2) * PX,
        angle |-> angle,
        vert |-> vert,
        stage |-> stage,
        offsets |-> [j \in 1..vert |->
                       (random(r + 5 + j) * 2 * ASTEROID_JAG) \div 100
                         + 100 - ASTEROID_JAG] ]

\* reads the stream at r .. r + 5 + vert
createAsteroid(x, y, level, stage, r) ==
  LET angle == (random(r) * TURN) \div 100
      vert == (random(r + 1) * (ASTEROIDS_VERT + 1)) \div 100
                + ASTEROIDS_VERT \div 2
      \* (random * ASTEROIDS_SPEED * (1 + 0.1 * level)) / FPS pixels
      speed(p) == RDiv(p * ASTEROIDS_SPEED * (10 + level) * PX, 1000 * FPS)
      sign(p) == IF p < 50 THEN 1 ELSE -1
  IN  [ x |-> x,
        y |-> y,
        xVelocity |-> speed(random(r + 2)) * sign(random(r + 3)),
        yVelocity |-> speed(random(r + 4)) * sign(random(r + 5)),
        radius |-> CeilDiv(ASTEROIDS_SIZE[stage], 2) * PX,
        angle |-> angle,
        vert |-> vert,
        stage |-> stage,
        offsets |-> [j \in 1..vert |->
                       (random(r + 5 + j) * 2 * ASTEROID_JAG) \div 100
                         + 100 - ASTEROID_JAG] ]

\* the stream positions createAsteroid reads, so that the next read follows
asteroidReads(r) ==
  6 + (random(r + 1) * (ASTEROIDS_VERT + 1)) \div 100 + ASTEROIDS_VERT \div 2

\* the do .. while of createAsteroidBelt: candidates are read two by two from
\* position r on; the result is the position of the first accepted one, or
\* -1 when `tries` candidates in a row are rejected
\* the do .. while of createAsteroidBelt without its test: the first
\* position drawn is taken
beltCandidate_firstDrawn(ship, r, tries) ==
  IF tries = 0 THEN -1 ELSE r

RECURSIVE beltCandidate(_, _, _)
beltCandidate(ship, r, tries) ==
  LET x == ((random(r) * CANVAS_width) \div 100) * PX
      y == ((random(r + 1) * CANVAS_height) \div 100) * PX
  IN  IF tries = 0 THEN -1
      ELSE IF distBetweenPointsLess(ship.x, ship.y, x, y,
                                    ASTEROIDS_SIZE[1] * 2 * PX + ship.radius)
        THEN beltCandidate(ship, r + 2, tries - 1)
        ELSE r

RECURSIVE beltFrom(_, _, _, _)
beltFrom(n, level, ship, r) ==
  LET at == beltCandidate(ship, r, Len(RandomStream))
      x == ((random(at) * CANVAS_width) \div 100) * PX
      y == ((random(at + 1) * CANVAS_height) \div 100) * PX
  IN  IF n = 0 THEN <<>>
      ELSE <<createAsteroid(x, y, level, 1, at + 2)>>
             \o beltFrom(n - 1, level, ship, at + 2 + asteroidReads(at + 2))

createAsteroidBelt(level, ship, r) ==
  beltFrom(ASTEROIDS_NUM + level, level, ship, r)

\* whether every do .. while of createAsteroidBelt ends on this stream
RECURSIVE beltEnds(_, _, _)
beltEnds(n, ship, r) ==
  LET at == beltCandidate(ship, r, Len(RandomStream))
  IN  IF n = 0 THEN TRUE
      ELSE IF at = -1 THEN FALSE
      ELSE beltEnds(n - 1, ship, at + 2 + asteroidReads(at + 2))

\* reads the stream at r .. r + 3
createParticle(x, y, r) ==
  [ x |-> x,
    y |-> y,
    coordinates |-> [i \in 1..PARTICLE_TRAIL |-> <<x, y>>],
    angle |-> (random(r) * TURN) \div 100,
    speed |-> PX + (random(r + 1) * (PARTICLE_MAX_SPEED - 1) * PX) \div 100,
    brightness |-> 50 + (random(r + 2) * (80 - 50)) \div 100,
    alpha |-> 1000,
    decay |-> PARTICLE_DECAY_MIN
                + (random(r + 3) * (PARTICLE_DECAY_MAX - PARTICLE_DECAY_MIN))
                    \div 100 ]

createExplosion(x, y, r) ==
  [ x |-> x,
    y |-> y,
    particles |-> [i \in 1..PARTICLE_COUNT |->
                     createParticle(x, y, r + 4 * (i - 1))] ]

createGameState(r) ==
  [ score |-> 0,
    lives |-> 3,
    level |-> 1,
    ship |-> createShip,
    asteroids |-> createAsteroidBelt(1, createShip, r),
    explosions |-> <<>> ]

isGameOver(s) == s.lives = 0
isSpawning(s) == s.ship.blinkNum > 0

\* the third mode of gameLoop
isPlaying(s) == ~isGameOver(s) /\ ~isSpawning(s)

----------------------------------------------------------------------------
(* Input actions, lines 376-415. *)

\* ((TURN_SPEED / 180) * PI) / FPS radians, in turn steps
turnStep == (TURN_SPEED * TURN) \div (360 * FPS)

rotateLeft(s) == [s EXCEPT !.ship.rotation = turnStep]

\* rotateRight that turns the way rotateLeft does
rotateRight_asLeft(s) == [s EXCEPT !.ship.rotation = turnStep]

rotateRight(s) == [s EXCEPT !.ship.rotation = -turnStep]

rotateStop(s) == [s EXCEPT !.ship.rotation = 0]

thrustOn(s) == [s EXCEPT !.ship.thrusting = TRUE]

thrustStop(s) == [s EXCEPT !.ship.thrusting = FALSE]

\* shootLaser that leaves canShoot as it is
shootLaser_noCooldown(s) ==
  IF s.ship.canShoot
    THEN [s EXCEPT !.ship.lasers = Append(@, createLaser(s))]
    ELSE s

shootLaser(s) ==
  IF s.ship.canShoot
    THEN [s EXCEPT !.ship.lasers = Append(@, createLaser(s)),
                   !.ship.canShoot = FALSE]
    ELSE s

enableLaser(s) == [s EXCEPT !.ship.canShoot = TRUE]

----------------------------------------------------------------------------
(* Movement, lines 417-473 and 595-644. *)

\* the edge rule that re-enters by as much as the edge was passed
wrap_byExcess(v, radius, size) ==
  LET low == 0 - radius
      high == size + radius
  IN  IF v < low THEN high - (low - v)
      ELSE IF v > high THEN low + (v - high)
      ELSE v

\* the edge rule of moveShip and moveAsteroids on one axis
wrap(v, radius, size) ==
  LET low == 0 - radius
      high == size + radius
  IN  IF v < low THEN high ELSE IF v > high THEN low ELSE v

\* friction whose quotient is rounded up: no velocity is too small to lose
\* a unit
friction_roundsUp(v) ==
  LET product == CeilDiv(2 * FRICTION * Abs(v) - 100, 200)
      quotient == CeilDiv(product, FPS)
  IN  IF v < 0 THEN -quotient ELSE quotient

\* (FRICTION * v) / FPS in whole units of velocity, rounded where the source
\* rounds: first the product, then the quotient.  This is what IEEE doubles
\* compute on a velocity that is a whole number of their least unit, where
\* every result is rounded to a whole unit; FRICTION = 0.7 as a double lies
\* just below 7 / 10, so a product half way between two units goes to the
\* one nearer zero.  The unit of the model is coarser than the doubles' (a
\* sixtieth of a pixel for 2^-1074), so the model meets after a few ticks the
\* fixed point of 43 units that the doubles meet after some 63,000
friction(v) ==
  LET product == CeilDiv(2 * FRICTION * Abs(v) - 100, 200)
      quotient == RDivEven(product, FPS)
  IN  IF v < 0 THEN -quotient ELSE quotient

moveShip(s) ==
  LET ship == s.ship
      angle == ship.angle + ship.rotation
      x == ship.x + ship.xVelocity
      y == ship.y + ship.yVelocity
  IN  [s EXCEPT
        !.ship.x = wrap(x, ship.radius, CANVAS_width * PX),
        !.ship.y = wrap(y, ship.radius, CANVAS_height * PX),
        !.ship.angle = angle,
        !.ship.xVelocity =
          IF ship.thrusting
            THEN ship.xVelocity
                   + RDiv(SHIP_THRUST * PX * Cos(angle), FPS * TrigOne)
            ELSE ship.xVelocity - friction(ship.xVelocity),
        !.ship.yVelocity =
          IF ship.thrusting
            THEN ship.yVelocity
                   - RDiv(SHIP_THRUST * PX * Sin(angle), FPS * TrigOne)
            ELSE ship.yVelocity - friction(ship.yVelocity)]

\* the moved particle, or the empty sequence where the source returns undefined
\* moveParticle that keeps a particle until its alpha is used up
moveParticle_untilZero(p) ==
  LET coordinates ==
        <<<<p.x, p.y>>>> \o SubSeq(p.coordinates, 1, Len(p.coordinates) - 1)
      speed == RDiv(p.speed * PARTICLE_FRICTION, 100)
      alpha == p.alpha - p.decay
  IN  IF alpha <= 0
        THEN <<>>
        ELSE << [p EXCEPT
                  !.coordinates = coordinates,
                  !.speed = speed,
                  !.alpha = alpha,
                  !.x = p.x + RDiv(Cos(p.angle) * speed, TrigOne),
                  !.y = p.y + RDiv(Sin(p.angle) * speed, TrigOne)
                          + PARTICLE_GRAVITY * PX] >>

\* moveParticle that tests alpha against decay before lowering it
moveParticle_testsFirst(p) ==
  LET coordinates ==
        <<<<p.x, p.y>>>> \o SubSeq(p.coordinates, 1, Len(p.coordinates) - 1)
      speed == RDiv(p.speed * PARTICLE_FRICTION, 100)
      alpha == p.alpha - p.decay
  IN  IF p.alpha <= p.decay
        THEN <<>>
        ELSE << [p EXCEPT
                  !.coordinates = coordinates,
                  !.speed = speed,
                  !.alpha = alpha,
                  !.x = p.x + RDiv(Cos(p.angle) * speed, TrigOne),
                  !.y = p.y + RDiv(Sin(p.angle) * speed, TrigOne)
                          + PARTICLE_GRAVITY * PX] >>

moveParticle(p) ==
  LET coordinates ==
        <<<<p.x, p.y>>>> \o SubSeq(p.coordinates, 1, Len(p.coordinates) - 1)
      speed == RDiv(p.speed * PARTICLE_FRICTION, 100)
      alpha == p.alpha - p.decay
  IN  IF alpha <= p.decay
        THEN <<>>
        ELSE << [p EXCEPT
                  !.coordinates = coordinates,
                  !.speed = speed,
                  !.alpha = alpha,
                  !.x = p.x + RDiv(Cos(p.angle) * speed, TrigOne),
                  !.y = p.y + RDiv(Sin(p.angle) * speed, TrigOne)
                          + PARTICLE_GRAVITY * PX] >>

\* moveLasers that moves first and then drops what has left the board
moveLasers_moveFirst(s) ==
  LET moveIfOnBoard(prev, laser) ==
        LET x == laser.x + laser.xVelocity
            y == laser.y + laser.yVelocity
        IN  IF \/ x < 0
               \/ x > CANVAS_width * PX
               \/ y < 0
               \/ y > CANVAS_height * PX
              THEN prev
              ELSE Append(prev, [laser EXCEPT !.x = x, !.y = y])
      RECURSIVE reduce(_, _)
      reduce(prev, i) ==
        IF i > Len(s.ship.lasers) THEN prev
        ELSE reduce(moveIfOnBoard(prev, s.ship.lasers[i]), i + 1)
  IN  [s EXCEPT !.ship.lasers = reduce(<<>>, 1)]

\* moveLasers that takes a laser round the board as moveShip takes the ship
moveLasers_wraps(s) ==
  LET moveIfOnBoard(prev, laser) ==
        Append(prev,
               [laser EXCEPT
                  !.x = wrap(laser.x + laser.xVelocity, laser.radius,
                             CANVAS_width * PX),
                  !.y = wrap(laser.y + laser.yVelocity, laser.radius,
                             CANVAS_height * PX)])
      RECURSIVE reduce(_, _)
      reduce(prev, i) ==
        IF i > Len(s.ship.lasers) THEN prev
        ELSE reduce(moveIfOnBoard(prev, s.ship.lasers[i]), i + 1)
  IN  [s EXCEPT !.ship.lasers = reduce(<<>>, 1)]

moveLasers(s) ==
  LET moveIfOnBoard(prev, laser) ==
        IF \/ laser.x < 0
           \/ laser.x > CANVAS_width * PX
           \/ laser.y < 0
           \/ laser.y > CANVAS_height * PX
          THEN prev
          ELSE Append(prev, [laser EXCEPT !.x = laser.x + laser.xVelocity,
                                          !.y = laser.y + laser.yVelocity])
      RECURSIVE reduce(_, _)
      reduce(prev, i) ==
        IF i > Len(s.ship.lasers) THEN prev
        ELSE reduce(moveIfOnBoard(prev, s.ship.lasers[i]), i + 1)
  IN  [s EXCEPT !.ship.lasers = reduce(<<>>, 1)]

moveAsteroids(s) ==
  LET moveAsteroid(asteroid) ==
        [asteroid EXCEPT
          !.x = wrap(asteroid.x + asteroid.xVelocity, asteroid.radius,
                     CANVAS_width * PX),
          !.y = wrap(asteroid.y + asteroid.yVelocity, asteroid.radius,
                     CANVAS_height * PX)]
  IN  [s EXCEPT !.asteroids =
         [i \in 1..Len(s.asteroids) |-> moveAsteroid(s.asteroids[i])]]

----------------------------------------------------------------------------
(* Spawn blinking and explosions, lines 475-503. *)

\* blinkShip that resets the countdown without counting the blink
blinkShip_noCount(s) ==
  LET ship == s.ship
  IN  [s EXCEPT
        !.ship.blinkTime =
          IF ship.blinkTime = 0
            THEN CeilDiv(SHIP_BLINK_DURATION * FPS, 10)
            ELSE ship.blinkTime - 1]

\* blinkShip whose blink is a tick short: it counts from one below
\* ceil(SHIP_BLINK_DURATION * FPS)
blinkShip_shortBlink(s) ==
  LET ship == s.ship
  IN  [s EXCEPT
        !.ship.blinkTime =
          IF ship.blinkTime = 0
            THEN CeilDiv(SHIP_BLINK_DURATION * FPS, 10) - 1
            ELSE ship.blinkTime - 1,
        !.ship.blinkNum =
          IF ship.blinkTime = 0 /\ ship.blinkNum > 0
            THEN ship.blinkNum - 1
            ELSE ship.blinkNum]

blinkShip(s) ==
  LET ship == s.ship
  IN  [s EXCEPT
        !.ship.blinkTime =
          IF ship.blinkTime = 0
            THEN CeilDiv(SHIP_BLINK_DURATION * FPS, 10)
            ELSE ship.blinkTime - 1,
        !.ship.blinkNum =
          IF ship.blinkTime = 0 /\ ship.blinkNum > 0
            THEN ship.blinkNum - 1
            ELSE ship.blinkNum]

\* animateExplosions that drops an explosion once its particles are gone
animateExplosions_compacts(s) ==
  LET RECURSIVE reduce(_, _, _)
      reduce(particles, prev, i) ==
        IF i > Len(particles) THEN prev
        ELSE reduce(particles, prev \o moveParticle(particles[i]), i + 1)
  IN  [s EXCEPT !.explosions =
         SelectSeq([e \in 1..Len(s.explosions) |->
                      [s.explosions[e] EXCEPT !.particles = reduce(@, <<>>, 1)]],
                   LAMBDA explosion : explosion.particles # <<>>)]

animateExplosions(s) ==
  LET RECURSIVE reduce(_, _, _)
      reduce(particles, prev, i) ==
        IF i > Len(particles) THEN prev
        ELSE reduce(particles, prev \o moveParticle(particles[i]), i + 1)
  IN  [s EXCEPT !.explosions =
         [e \in 1..Len(s.explosions) |->
            [s.explosions[e] EXCEPT !.particles = reduce(@, <<>>, 1)]]]

----------------------------------------------------------------------------
(* Collisions and level, lines 505-655. *)

\* removeAsteroid that compares asteroids field by field: every asteroid equal
\* to the hit one goes with it
removeAsteroid_byValue(asteroids, hit, level, r) ==
  LET asteroid == asteroids[hit]
      stage == asteroid.stage
      x == asteroid.x
      y == asteroid.y
      newBelt == SelectSeq(asteroids, LAMBDA ast : ast # asteroid)
      children(st) ==
        << createAsteroid(x - 5 * PX, y - 5 * PX, level, st, r),
           createAsteroid(x + 5 * PX, y + 5 * PX, level, st,
                          r + asteroidReads(r)) >>
  IN  IF stage = 1 THEN newBelt \o children(2)
      ELSE IF stage = 2 THEN newBelt \o children(3)
      ELSE newBelt

\* removeAsteroid that leaves one child where the source leaves two
removeAsteroid_oneChild(asteroids, hit, level, r) ==
  LET asteroid == asteroids[hit]
      stage == asteroid.stage
      x == asteroid.x
      y == asteroid.y
      newBelt == SubSeq(asteroids, 1, hit - 1)
                   \o SubSeq(asteroids, hit + 1, Len(asteroids))
      children(st) ==
        << createAsteroid(x - 5 * PX, y - 5 * PX, level, st, r) >>
  IN  IF stage = 1 THEN newBelt \o children(2)
      ELSE IF stage = 2 THEN newBelt \o children(3)
      ELSE newBelt

\* `hit` is the index of the asteroid the source passes by reference: the
\* comparison asteroid == ast is true of that one object only
removeAsteroid(asteroids, hit, level, r) ==
  LET asteroid == asteroids[hit]
      stage == asteroid.stage
      x == asteroid.x
      y == asteroid.y
      newBelt == SubSeq(asteroids, 1, hit - 1)
                   \o SubSeq(asteroids, hit + 1, Len(asteroids))
      children(st) ==
        << createAsteroid(x - 5 * PX, y - 5 * PX, level, st, r),
           createAsteroid(x + 5 * PX, y + 5 * PX, level, st,
                          r + asteroidReads(r)) >>
  IN  IF stage = 1 THEN newBelt \o children(2)
      ELSE IF stage = 2 THEN newBelt \o children(3)
      ELSE newBelt

\* removeLaser that takes out only the first laser over the asteroid
removeLaser_first(asteroid, ship) ==
  LET first == find(ship.lasers, LAMBDA laser : circleCollision(laser, asteroid))
  IN  IF first = 0 THEN ship.lasers
      ELSE SubSeq(ship.lasers, 1, first - 1)
             \o SubSeq(ship.lasers, first + 1, Len(ship.lasers))

\* removeLaser that takes out every laser in flight
removeLaser_all(asteroid, ship) == <<>>

removeLaser(asteroid, ship) ==
  LET RECURSIVE reduce(_, _)
      reduce(prev, i) ==
        IF i > Len(ship.lasers) THEN prev
        ELSE reduce(IF circleCollision(ship.lasers[i], asteroid)
                      THEN prev
                      ELSE Append(prev, ship.lasers[i]),
                    i + 1)
  IN  reduce(<<>>, 1)

\* the square of the distance between the centres of two circles that
\* overlap
squaredDistance(obj1, obj2) ==
  (obj1.x - obj2.x) * (obj1.x - obj2.x) + (obj1.y - obj2.y) * (obj1.y - obj2.y)

\* shipHit that finds the nearest asteroid over the ship, not the first
shipHit_nearest(s) ==
  LET over == {i \in 1..Len(s.asteroids) :
                 circleCollision(s.ship, s.asteroids[i])}
      nearer(i, j) ==
        \/ squaredDistance(s.ship, s.asteroids[i])
             < squaredDistance(s.ship, s.asteroids[j])
        \/ /\ squaredDistance(s.ship, s.asteroids[i])
                = squaredDistance(s.ship, s.asteroids[j])
           /\ i <= j
  IN  IF over = {} THEN 0 ELSE CHOOSE i \in over : \A j \in over : nearer(i, j)

\* the index in s.asteroids of the asteroid checkShipCollision finds, or 0
shipHit(s) == find(s.asteroids, LAMBDA a : circleCollision(s.ship, a))

\* checkShipCollision whose new ship inherits the lasers in flight
checkShipCollision_keepLasers(s, r) ==
  LET hitAsteroid == shipHit(s)
      explosion == createExplosion(noseX(s.ship), noseY(s.ship), r)
  IN  IF hitAsteroid # 0
        THEN IF s.lives > 1
          THEN [s EXCEPT
                 !.ship = [createShip EXCEPT !.lasers = s.ship.lasers],
                 !.lives = s.lives - 1,
                 !.asteroids = removeAsteroid(s.asteroids, hitAsteroid,
                                              s.level, r + 4 * PARTICLE_COUNT),
                 !.explosions = Append(@, explosion)]
          ELSE [s EXCEPT
                 !.lives = 0,
                 !.explosions = Append(@, explosion)]
        ELSE s

\* checkShipCollision that fragments the asteroid on the last life too
checkShipCollision_alwaysFragments(s, r) ==
  LET hitAsteroid == shipHit(s)
      explosion == createExplosion(noseX(s.ship), noseY(s.ship), r)
  IN  IF hitAsteroid # 0
        THEN [s EXCEPT
               !.ship = IF s.lives > 1 THEN createShip ELSE @,
               !.lives = s.lives - 1,
               !.asteroids = removeAsteroid(s.asteroids, hitAsteroid,
                                            s.level, r + 4 * PARTICLE_COUNT),
               !.explosions = Append(@, explosion)]
        ELSE s

checkShipCollision(s, r) ==
  LET hitAsteroid == shipHit(s)
      explosion == createExplosion(noseX(s.ship), noseY(s.ship), r)
  IN  IF hitAsteroid # 0
        THEN IF s.lives > 1
          THEN [s EXCEPT
                 !.ship = createShip,
                 !.lives = s.lives - 1,
                 !.asteroids = removeAsteroid(s.asteroids, hitAsteroid,
                                              s.level, r + 4 * PARTICLE_COUNT),
                 !.explosions = Append(@, explosion)]
          ELSE [s EXCEPT
                 !.lives = 0,
                 !.explosions = Append(@, explosion)]
        ELSE s

\* laserHit that finds the last laser over an asteroid, not the first
laserHit_last(s) ==
  LET over == {l \in 1..Len(s.ship.lasers) :
                 \E i \in 1..Len(s.asteroids) :
                   circleCollision(s.ship.lasers[l], s.asteroids[i])}
  IN  IF over = {} THEN 0 ELSE CHOOSE l \in over : \A m \in over : m <= l

\* the index in s.ship.lasers of the laser checkLaserCollision finds, or 0
laserHit(s) ==
  find(s.ship.lasers,
       LAMBDA laser : \E i \in 1..Len(s.asteroids) :
                        circleCollision(laser, s.asteroids[i]))

\* the index in s.asteroids of the asteroid checkLaserCollision finds, or 0
laserHitAsteroid(s) ==
  IF laserHit(s) = 0 THEN 0
  ELSE find(s.asteroids,
            LAMBDA a : circleCollision(s.ship.lasers[laserHit(s)], a))

\* checkLaserCollision that scores every asteroid as a stage-1 asteroid
checkLaserCollision_flatPoints(s, r) ==
  LET hitLaser == laserHit(s)
      hitAsteroid == laserHitAsteroid(s)
  IN  IF hitAsteroid # 0
        THEN [s EXCEPT
               !.asteroids = removeAsteroid(s.asteroids, hitAsteroid, s.level,
                                            r + 4 * PARTICLE_COUNT),
               !.ship.lasers = removeLaser(s.asteroids[hitAsteroid], s.ship),
               !.explosions =
                 Append(@, createExplosion(s.ship.lasers[hitLaser].x,
                                           s.ship.lasers[hitLaser].y, r)),
               !.score = s.score + POINTS[1]]
        ELSE s

\* checkLaserCollision that resolves a second hit in the same tick
checkLaserCollision_twice(s, r) ==
  LET once(u) ==
        IF laserHitAsteroid(u) # 0
          THEN [u EXCEPT
                 !.asteroids = removeAsteroid(u.asteroids, laserHitAsteroid(u),
                                              u.level, r + 4 * PARTICLE_COUNT),
                 !.ship.lasers = removeLaser(u.asteroids[laserHitAsteroid(u)],
                                             u.ship),
                 !.explosions =
                   Append(@, createExplosion(u.ship.lasers[laserHit(u)].x,
                                             u.ship.lasers[laserHit(u)].y, r)),
                 !.score =
                   u.score + POINTS[u.asteroids[laserHitAsteroid(u)].stage]]
          ELSE u
  IN  once(once(s))

checkLaserCollision(s, r) ==
  LET hitLaser == laserHit(s)
      hitAsteroid == laserHitAsteroid(s)
  IN  IF hitAsteroid # 0
        THEN [s EXCEPT
               !.asteroids = removeAsteroid(s.asteroids, hitAsteroid, s.level,
                                            r + 4 * PARTICLE_COUNT),
               !.ship.lasers = removeLaser(s.asteroids[hitAsteroid], s.ship),
               !.explosions =
                 Append(@, createExplosion(s.ship.lasers[hitLaser].x,
                                           s.ship.lasers[hitLaser].y, r)),
               !.score = s.score + POINTS[s.asteroids[hitAsteroid].stage]]
        ELSE s

\* checkLevelCompleted that sizes the new belt by the level just completed
checkLevelCompleted_oldLevel(s, r) ==
  LET level == s.level + 1
  IN  IF Len(s.asteroids) # 0
        THEN s
        ELSE [s EXCEPT !.asteroids = createAsteroidBelt(s.level, s.ship, r),
                       !.level = level]

\* checkLevelCompleted that awards a life for a cleared belt
checkLevelCompleted_bonusLife(s, r) ==
  LET level == s.level + 1
  IN  IF Len(s.asteroids) # 0
        THEN s
        ELSE [s EXCEPT !.asteroids = createAsteroidBelt(level, s.ship, r),
                       !.level = level,
                       !.lives = @ + 1]

\* checkLevelCompleted that leaves the belt of a finished game empty
checkLevelCompleted_sparesLoser(s, r) ==
  LET level == s.level + 1
  IN  IF Len(s.asteroids) # 0 \/ s.lives = 0
        THEN s
        ELSE [s EXCEPT !.asteroids = createAsteroidBelt(level, s.ship, r),
                       !.level = level]

checkLevelCompleted(s, r) ==
  LET level == s.level + 1
  IN  IF Len(s.asteroids) # 0
        THEN s
        ELSE [s EXCEPT !.asteroids = createAsteroidBelt(level, s.ship, r),
                       !.level = level]

----------------------------------------------------------------------------
(* The reducer, lines 657-692. *)

\* Array.prototype.reduce hands each transducer the value the one before it
\* returned: `prev` is computed once, then `transducer` is applied to it
reduce(prev, transducer(_)) ==
  CHOOSE next \in {transducer(p) : p \in {prev}} : TRUE

\* the state checkShipCollision receives in a Playing tick
afterMoves(s) == reduce(reduce(moveShip(s), moveLasers), moveAsteroids)

\* the state checkLevelCompleted receives in a Playing tick
afterCollisions(s, r) ==
  reduce(reduce(afterMoves(s),
                LAMBDA p : checkShipCollision(p, r)),
         LAMBDA p : checkLaserCollision(p, r + 3))

\* the Playing branch of gameLoop
playing(s, r) ==
  reduce(reduce(afterCollisions(s, r),
                LAMBDA p : checkLevelCompleted(p, r + 5)),
         animateExplosions)

\* the spawning branch of gameLoop
spawning(s) == reduce(reduce(blinkShip(s), moveAsteroids), animateExplosions)

\* gameLoop without its game-over branch: a finished game keeps spawning or
\* playing
gameLoop_noGameOver(s, r) ==
  IF isSpawning(s) THEN spawning(s) ELSE playing(s, r)

\* gameLoop without its spawning branch: a blinking ship plays
gameLoop_noImmunity(s, r) ==
  IF isGameOver(s) THEN animateExplosions(s) ELSE playing(blinkShip(s), r)

\* r is where the tick starts reading Math.random(); each sub-transition
\* that draws reads from its own position
\* gameLoop that leaves a finished game as it is
gameLoop_restsWhenOver(s, r) ==
  IF isGameOver(s)
    THEN s
    ELSE IF isSpawning(s) THEN spawning(s) ELSE playing(s, r)

gameLoop(s, r) ==
  IF isGameOver(s)
    THEN animateExplosions(s)
    ELSE IF isSpawning(s) THEN spawning(s) ELSE playing(s, r)

\* whether gameLoop(s, r) returns: the only loop of a tick is the rejection
\* sampling of a new belt
gameLoopReturns(s, r) ==
  isPlaying(s) =>
    \A last \in {afterCollisions(s, r)} :
      Len(last.asteroids) = 0
        => beltEnds(ASTEROIDS_NUM + last.level + 1, last.ship, r + 5)

GameActions ==
  { "rotateRight", "rotateLeft", "rotateStop", "thrustOn", "thrustStop",
    "shootLaser", "enableLaser", "gameLoop" }

\* values a caller of dispatch may pass that are not GameActions
UnknownActions == {"pause", "undefined"}

\* reducer whose last branch does not test for gameLoop: whatever is none of
\* the seven input actions runs a tick
reducer_elseTick(s, action, r) ==
  IF action = "rotateLeft" THEN rotateLeft(s)
  ELSE IF action = "rotateRight" THEN rotateRight(s)
  ELSE IF action = "rotateStop" THEN rotateStop(s)
  ELSE IF action = "thrustOn" THEN thrustOn(s)
  ELSE IF action = "thrustStop" THEN thrustStop(s)
  ELSE IF action = "shootLaser" THEN shootLaser(s)
  ELSE IF action = "enableLaser" THEN enableLaser(s)
  ELSE gameLoop(s, r)

reducer(s, action, r) ==
  IF action = "rotateLeft" THEN rotateLeft(s)
  ELSE IF action = "rotateRight" THEN rotateRight(s)
  ELSE IF action = "rotateStop" THEN rotateStop(s)
  ELSE IF action = "thrustOn" THEN thrustOn(s)
  ELSE IF action = "thrustStop" THEN thrustStop(s)
  ELSE IF action = "shootLaser" THEN shootLaser(s)
  ELSE IF action = "enableLaser" THEN enableLaser(s)
  ELSE IF action = "gameLoop" THEN gameLoop(s, r)
  ELSE s

----------------------------------------------------------------------------
(* The store: useReducer(reducer, createGameState()), lines 699-721 and     *)
(* 791-800.  The key handlers dispatch the input actions, the animation     *)
(* frame loop dispatches gameLoop.                                          *)

\* States of a game in progress.  A run of the model starts from a new game
\* or from one of these; each is a state a game reaches (its score, lives,
\* belt and explosion count agree: a level-1 belt is four stage-1 asteroids,
\* every destruction appends one explosion, a laser hit scores).  Positions
\* are given from the board centre, where the ship stands, by a direction in
\* turn steps and a distance in pixels.

polarX(a, d) == (CANVAS_width * PX) \div 2 + RDiv(d * PX * Cos(a), TrigOne)
polarY(a, d) == (CANVAS_height * PX) \div 2 - RDiv(d * PX * Sin(a), TrigOne)

\* an asteroid of the given stage, d pixels from the centre in direction a,
\* drifting by (vx, vy); its shape is drawn at stream position r
rock(stage, a, d, vx, vy, r) ==
  [createAsteroid(polarX(a, d), polarY(a, d), 1, stage, r)
     EXCEPT !.xVelocity = vx, !.yVelocity = vy]

\* the laser a ship standing at the centre fired k ticks ago in direction a
flown(a, k) ==
  LET laser == createLaser([ship |-> [createShip EXCEPT !.angle = a]])
  IN  [laser EXCEPT !.x = laser.x + k * laser.xVelocity,
                    !.y = laser.y + k * laser.yVelocity]

\* n explosions whose particles have all faded
spent(n) == [i \in 1..n |-> [x |-> polarX(i, 100), y |-> polarY(i, 100),
                             particles |-> <<>>]]

playingShip == [createShip EXCEPT !.blinkNum = 0, !.blinkTime = 18]

\* lasers fired in directions 150, 120 and 90 degrees, 15, 8 and 1 ticks
\* ago, each about to enter an asteroid of its own with its next move; the
\* first two were fired between the same two ticks (fire, release, fire)
volley == <<flown(50, 15), flown(50, 15), flown(40, 8), flown(30, 1)>>

\* the belt left by two ship collisions (a stage-1 and then a stage-2
\* asteroid): asteroids of stages 1, 2, 3 lie ahead of the three lasers
targets ==
  << rock(1, 50, 195, 0, 0, 0), rock(2, 40, 116, 0, 0, 3),
     rock(3, 30, 45, 0, 0, 5), rock(3, 100, 200, 11, -39, 2),
     rock(1, 75, 220, -28, 54, 9) >>

\* the last spawn tick of the first ship, three asteroids over the ship, the
\* third the nearest; the first two asteroids happen to agree in every field
LastBlink ==
  [ score |-> 0, lives |-> 3, level |-> 1,
    ship |-> [createShip EXCEPT !.blinkNum = 1],
    asteroids |-> << rock(1, 30, 55, 54, 0, 0), rock(1, 30, 55, 54, 0, 0),
                     rock(1, 110, 40, 54, 0, 4), rock(1, 65, 300, -17, 0, 7) >>,
    explosions |-> <<>> ]

\* the last life, nothing near the ship, the volley under way
Shooting ==
  [ score |-> 0, lives |-> 1, level |-> 1,
    ship |-> [playingShip EXCEPT !.lasers = volley, !.canShoot = FALSE],
    asteroids |-> targets \o <<rock(1, 10, 300, 54, 0, 4)>>,
    explosions |-> spent(2) ]

\* the last life, a stage-1 asteroid drifting onto the ship
LastLife ==
  [ score |-> 0, lives |-> 1, level |-> 1,
    ship |-> [playingShip EXCEPT !.lasers = volley, !.canShoot = FALSE],
    asteroids |-> targets \o <<rock(1, 90, 60, 0, -54, 4)>>,
    explosions |-> spent(2) ]

\* one stage-3 asteroid is left of the level-1 belt and a laser is about to
\* enter it
LastRock ==
  [ score |-> 1980, lives |-> 3, level |-> 1,
    ship |-> [playingShip EXCEPT !.lasers = <<flown(30, 1)>>],
    asteroids |-> <<rock(3, 30, 42, 0, 0, 5)>>,
    explosions |-> spent(27) ]

\* one stage-3 asteroid is left and drifts onto the ship, which has a life
\* to lose
LastRockRam ==
  [ score |-> 1880, lives |-> 2, level |-> 1,
    ship |-> playingShip,
    asteroids |-> <<rock(3, 60, 23, 54, 0, 5)>>,
    explosions |-> spent(27) ]

\* the last life and the last asteroid of level 1 (a stage-1 and a stage-2
\* asteroid were rammed, the others shot): it drifts onto the ship while the
\* ship's laser is about to enter it
LastStand ==
  [ score |-> 1910, lives |-> 1, level |-> 1,
    ship |-> [playingShip EXCEPT !.lasers = <<flown(30, 1)>>],
    asteroids |-> <<rock(3, 30, 23, 0, 54, 5)>>,
    explosions |-> spent(27) ]

\* a stage-1 asteroid of level 1 at (x, y), in units, drifting by (vx, vy)
adrift(x, y, vx, vy, r) ==
  [createAsteroid(x, y, 1, 1, r) EXCEPT !.xVelocity = vx, !.yVelocity = vy]

\* a laser fired upwards that has flown to (x, y), in units
shotUp(x, y) ==
  [createLaser([ship |-> createShip]) EXCEPT !.x = x, !.y = y]

\* the first ship, its spawn over, coasts across the right edge; a laser it
\* fired upwards is about to leave the board at the top; of the four
\* asteroids one lies at the left, and after the next move exactly a
\* radius sum from the ship, and each of the others crosses an edge with
\* its next move (left; right and bottom; top)
Coasting ==
  [ score |-> 0, lives |-> 3, level |-> 1,
    ship |-> [playingShip EXCEPT
                !.x = (CANVAS_width * PX) + 600 - 20,
                !.y = 120 * PX,
                !.angle = 0,
                !.xVelocity = 45,
                !.yVelocity = -30,
                !.lasers = <<shotUp(690 * PX, 200)>>],
    asteroids |-> << adrift(2946, 120 * PX - 30, 54, 0, 0),
                     adrift(10 - 3000, 400 * PX, -54, 0, 3),
                     adrift(CANVAS_width * PX + 3006,
                            CANVAS_height * PX + 2995, 54, 40, 5),
                     adrift(500 * PX, 3 - 3000, 0, -20, 9) >>,
    explosions |-> <<>> ]

Snapshots ==
  {LastBlink, Shooting, LastLife, LastRock, LastRockRam, LastStand, Coasting}

----------------------------------------------------------------------------
(* The frame loop of GameBoard, lines 791-800.  A frame record holds what   *)
(* the browser and the effect's closures hold: the handles issued so far,  *)
(* the callbacks pending (each with the run of the effect whose `loop` it  *)
(* is), the `frameId` of each run of the effect, and whether the effect is *)
(* set up.                                                                 *)

\* no effect has run yet
frameAtRest ==
  [ mounts |-> 0, mounted |-> FALSE, frameId |-> <<>>, pending |-> {},
    handles |-> 0, dispatched |-> 0 ]

\* requestAnimationFrame(loop), called by run `effect` of the effect: the
\* handle returned is the `handles` of the result
requestAnimationFrame(f, effect) ==
  [f EXCEPT !.handles = @ + 1,
            !.pending = @ \cup {[handle |-> f.handles + 1, effect |-> effect]}]

cancelAnimationFrame(f, id) ==
  [f EXCEPT !.pending = {c \in @ : c.handle # id}]

\* the body of the effect: frameId = requestAnimationFrame(loop)
effect(f) ==
  LET run == f.mounts + 1
      requested == requestAnimationFrame(f, run)
  IN  [requested EXCEPT !.mounts = run,
                        !.mounted = TRUE,
                        !.frameId = Append(@, requested.handles)]

\* loop that requests the next frame and forgets its handle
loop_forgetsHandle(f, run) ==
  LET requested == requestAnimationFrame(f, run)
  IN  [requested EXCEPT !.dispatched = @ + 1]

\* loop, as far as the frames go: frameId = requestAnimationFrame(loop), and
\* then one gameLoop is dispatched
loop(f, run) ==
  LET requested == requestAnimationFrame(f, run)
  IN  [requested EXCEPT !.frameId[run] = requested.handles,
                        !.dispatched = @ + 1]

\* the cleanup the effect returns: cancelAnimationFrame(frameId)
cleanup(f) ==
  [cancelAnimationFrame(f, f.frameId[f.mounts]) EXCEPT !.mounted = FALSE]

----------------------------------------------------------------------------
(* The entity engine, src/engine.  Its systems change the entity they are  *)
(* given, so entities are objects: `heap` holds the fields of each object  *)
(* and a GameState lists its entities by reference (index into heap).      *)

\* GameActions of src/engine/core.tsx
EngineActions ==
  { "rotateRight", "rotateLeft", "rotateStop", "thrustOn", "thrustStop",
    "shootLaser", "enableLaser", "gameLoop" }

EngineInputs == EngineActions \ {"gameLoop"}

hasPosition(entity) == "x" \in DOMAIN entity

hasVelocity(entity) == "xVelocity" \in DOMAIN entity

\* applyVelocity and the entity it returns: the one it was given
applyVelocity(heap, entity) ==
  [ heap |-> IF hasVelocity(heap[entity]) /\ hasPosition(heap[entity])
               THEN [heap EXCEPT
                      ![entity].x = @ + heap[entity].xVelocity,
                      ![entity].y = @ + heap[entity].yVelocity]
               ELSE heap,
    entity |-> entity ]

\* state.systems.reduce((prev, system) => system(prev), entity), from the
\* i-th system on
RECURSIVE runSystems(_, _, _, _)
runSystems(systems, heap, entity, i) ==
  IF i > Len(systems) THEN [heap |-> heap, entity |-> entity]
  ELSE LET prev == applyVelocity(heap, entity)
       IN  runSystems(systems, prev.heap, prev.entity, i + 1)

\* state.entities.map(...), from the i-th entity on
RECURSIVE mapEntities(_, _, _, _)
mapEntities(s, heap, i, mapped) ==
  IF i > Len(s.entities) THEN [heap |-> heap, entities |-> mapped]
  ELSE LET e == runSystems(s.systems, heap, s.entities[i], 1)
       IN  mapEntities(s, e.heap, i + 1, Append(mapped, e.entity))

\* a new GameState with the mapped list of entities, and the heap after
updateEntities(heap, s) ==
  LET mapped == mapEntities(s, heap, 1, <<>>)
  IN  [ heap |-> mapped.heap,
        state |-> [s EXCEPT !.entities = mapped.entities] ]

\* the game reducers coreReducer is given here: one that returns its state,
\* one that counts the gameLoop actions in a new state
GameReducers == {"keep", "count"}

gameReducer(wrapped, s, action) ==
  IF wrapped = "count" /\ action = "gameLoop"
    THEN [s EXCEPT !.score = @ + 1]
    ELSE s

coreReducer(wrapped, heap, gameState, action) ==
  LET updatedState == updateEntities(heap, gameState)
  IN  [ heap |-> updatedState.heap,
        state |-> gameReducer(wrapped, updatedState.state, action) ]

\* the GameState s with the fields of its entities in place of the references
fieldsOf(s, heap) ==
  [s EXCEPT !.entities = [i \in 1..Len(s.entities) |-> heap[s.entities[i]]]]

\* entities: one that moves, one that only has a position, one that only has
\* a velocity
mover(vx, vy) ==
  [x |-> 10, y |-> 20, xVelocity |-> vx, yVelocity |-> vy, radius |-> 5]

fixture == [x |-> 50, y |-> 50, radius |-> 8]

drift == [xVelocity |-> 1, yVelocity |-> 1]

\* an engine before its first dispatch; `arg` is the GameState passed to the
\* last call of the reducer and `argWas` the fields it and its entities had
\* when the call began, `last` the action of that call
engineOf(vx, vy, systems, wrapped) ==
  LET heap == <<mover(vx, vy), fixture, drift>>
      gameState == [ score |-> 0, level |-> 1, lives |-> 3,
                     systems |-> systems, entities |-> <<1, 2, 3>> ]
  IN  [ heap |-> heap, state |-> gameState, wrapped |-> wrapped,
        arg |-> gameState, argWas |-> fieldsOf(gameState, heap),
        last |-> "none", calls |-> 0 ]

engineAtRest == engineOf(0, 0, <<>>, "keep")

\* React calls coreReducer(reducer) with the state it holds and the action
dispatchTo(e, action) ==
  LET next == coreReducer(e.wrapped, e.heap, e.state, action)
  IN  [e EXCEPT !.heap = next.heap,
                !.state = next.state,
                !.arg = e.state,
                !.argWas = fieldsOf(e.state, e.heap),
                !.last = action,
                !.calls = @ + 1]

----------------------------------------------------------------------------
(* The game: Init, the actions and the specifications. *)

Init ==
  /\ \/ \E r \in Seeds : /\ beltEnds(ASTEROIDS_NUM + 1, createShip, r)
                          /\ state = createGameState(r)
     \/ state \in Snapshots
  /\ ticksLeft = MaxTicks
  /\ inputsLeft = MaxInputs
  /\ frame = frameAtRest
  /\ engine = engineAtRest

\* an input action takes one of the run's inputs
spend ==
  /\ inputsLeft > 0
  /\ inputsLeft' = inputsLeft - 1
  /\ UNCHANGED <<ticksLeft, frame, engine>>

\* keyDown 37
RotateLeft ==
  /\ spend
  /\ state' = reducer(state, "rotateLeft", 0)

\* keyDown 39
RotateRight ==
  /\ spend
  /\ state' = reducer(state, "rotateRight", 0)

\* keyUp 37 or 39
RotateStop ==
  /\ spend
  /\ state' = reducer(state, "rotateStop", 0)

\* keyDown 38
ThrustOn ==
  /\ spend
  /\ state' = reducer(state, "thrustOn", 0)

\* keyUp 38
ThrustStop ==
  /\ spend
  /\ state' = reducer(state, "thrustStop", 0)

\* keyDown 32
ShootLaser ==
  /\ spend
  /\ state' = reducer(state, "shootLaser", 0)

\* keyUp 32
EnableLaser ==
  /\ spend
  /\ state' = reducer(state, "enableLaser", 0)

\* a dispatch of something that is no GameActions value
Unknown ==
  /\ spend
  /\ \E action \in UnknownActions : state' = reducer(state, action, 0)

GameLoop ==
  /\ isPlaying(state) => ticksLeft > 0
  /\ \E r \in Seeds : /\ gameLoopReturns(state, r)
                       /\ state' = reducer(state, "gameLoop", r)
  /\ ticksLeft' = IF isPlaying(state) THEN ticksLeft - 1 ELSE ticksLeft
  /\ UNCHANGED <<inputsLeft, frame, engine>>

Next ==
  \/ RotateLeft
  \/ RotateRight
  \/ RotateStop
  \/ ThrustOn
  \/ ThrustStop
  \/ ShootLaser
  \/ EnableLaser
  \/ Unknown
  \/ GameLoop

Spec == Init /\ [][Next]_vars

\* a tick of the frame loop while the ship blinks
Blink == isSpawning(state) /\ ~isGameOver(state) /\ GameLoop

\* the frame loop of GameBoard requests the next frame before it dispatches
\* gameLoop, so gameLoop keeps being dispatched, while the ship blinks as at
\* any other time
LiveSpec == Spec /\ WF_vars(Blink)

----------------------------------------------------------------------------
(* The frame loop: GameBoard is mounted and unmounted, and the browser     *)
(* runs the callbacks pending.                                             *)

FrameInit ==
  /\ \/ \E r \in Seeds : /\ beltEnds(ASTEROIDS_NUM + 1, createShip, r)
                          /\ state = createGameState(r)
     \/ state \in {LastBlink, LastLife}
  /\ ticksLeft = MaxTicks
  /\ inputsLeft = MaxInputs
  /\ frame = frameAtRest
  /\ engine = engineAtRest

\* GameBoard is mounted and its effect runs
Mount ==
  /\ ~frame.mounted
  /\ frame.mounts < MaxMounts
  /\ frame' = effect(frame)
  /\ UNCHANGED <<state, ticksLeft, inputsLeft, engine>>

\* the browser runs a pending callback: `loop`, which dispatches gameLoop
Frame ==
  /\ frame.handles < MaxFrames
  /\ \E c \in frame.pending :
       frame' = loop([frame EXCEPT !.pending = @ \ {c}], c.effect)
  /\ \E r \in Seeds : /\ gameLoopReturns(state, r)
                       /\ state' = reducer(state, "gameLoop", r)
  /\ UNCHANGED <<ticksLeft, inputsLeft, engine>>

\* GameBoard is unmounted and the cleanup of its effect runs
Unmount ==
  /\ frame.mounted
  /\ frame' = cleanup(frame)
  /\ UNCHANGED <<state, ticksLeft, inputsLeft, engine>>

FrameNext ==
  \/ Mount
  \/ Frame
  \/ Unmount

FrameSpec == FrameInit /\ [][FrameNext]_vars

----------------------------------------------------------------------------
(* The engine: actions are dispatched to coreReducer(reducer).             *)

EngineInit ==
  /\ state = createGameState(0)
  /\ ticksLeft = MaxTicks
  /\ inputsLeft = MaxInputs
  /\ frame = frameAtRest
  /\ \E vx \in {-2, 0, 3}, vy \in {-1, 0, 2} :
       \E systems \in {<<>>, <<"applyVelocity">>}, wrapped \in GameReducers :
         engine = engineOf(vx, vy, systems, wrapped)

\* a key is pressed or released
EngineInput ==
  /\ engine.calls < MaxDispatches
  /\ \E action \in EngineInputs : engine' = dispatchTo(engine, action)
  /\ UNCHANGED <<state, ticksLeft, inputsLeft, frame>>

\* an animation frame
EngineGameLoop ==
  /\ engine.calls < MaxDispatches
  /\ engine' = dispatchTo(engine, "gameLoop")
  /\ UNCHANGED <<state, ticksLeft, inputsLeft, frame>>

EngineNext ==
  \/ EngineInput
  \/ EngineGameLoop

EngineSpec == EngineInit /\ [][EngineNext]_vars

----------------------------------------------------------------------------
(* Properties. *)

\* the explosions of t are those of s, in place, whatever their particles
sameExplosionSites(s, t) ==
  /\ Len(t.explosions) = Len(s.explosions)
  /\ \A e \in 1..Len(s.explosions) :
       /\ t.explosions[e].x = s.explosions[e].x
       /\ t.explosions[e].y = s.explosions[e].y

\* some particle has been moved at least n times
fadedBy(s, n) ==
  \E e \in 1..Len(s.explosions) :
    \E i \in 1..Len(s.explosions[e].particles) :
      LET p == s.explosions[e].particles[i]
      IN  p.alpha <= 1000 - n * p.decay

\* C1: when lives = 0 a gameLoop tick leaves score, level, lives, the whole
\* ship (position, angle, velocity, blink fields, lasers) and the asteroid
\* list as they are; only the particles of the explosions change.
C1_GameOverTickOnlyAnimates ==
  isGameOver(state) =>
    \A r \in Seeds :
      \A t \in {gameLoop(state, r)} :
        /\ t.score = state.score
        /\ t.level = state.level
        /\ t.lives = state.lives
        /\ t.ship = state.ship
        /\ t.asteroids = state.asteroids
        /\ sameExplosionSites(state, t)

\* a finished game whose explosions have been animated by a game-over tick
\* and are still fading
C1_Witness ==
  /\ isGameOver(state)
  /\ fadedBy(state, 2)
  /\ gameLoop(state, 0) # state

\* C2 as claimed: once lives = 0 it stays 0 and no action changes the ship's
\* position, angle or velocity, the laser list, the asteroid list, score or
\* level.
C2_GameOverFreezes ==
  [][state.lives = 0 =>
       /\ state'.lives = 0
       /\ state'.ship.x = state.ship.x
       /\ state'.ship.y = state.ship.y
       /\ state'.ship.angle = state.ship.angle
       /\ state'.ship.xVelocity = state.ship.xVelocity
       /\ state'.ship.yVelocity = state.ship.yVelocity
       /\ state'.ship.lasers = state.ship.lasers
       /\ state'.asteroids = state.asteroids
       /\ state'.score = state.score
       /\ state'.level = state.level]_vars

\* C3: while the ship is spawning (blinkNum > 0, lives > 0) a gameLoop tick
\* checks no collision and no level: lives, score, level and the number and
\* stages of the asteroids stay, no explosion is created, also with an
\* asteroid over the ship; every asteroid moves by its velocity (or wraps)
\* and the explosions are animated.
C3_SpawningTickSkipsCollisions ==
  (isSpawning(state) /\ ~isGameOver(state)) =>
    \A r \in Seeds :
      \A t \in {gameLoop(state, r)} :
        /\ t.lives = state.lives
        /\ t.score = state.score
        /\ t.level = state.level
        /\ Len(t.asteroids) = Len(state.asteroids)
        /\ \A i \in 1..Len(state.asteroids) :
             LET a == state.asteroids[i]
                 b == t.asteroids[i]
             IN  /\ b.stage = a.stage
                 /\ b.x \in {a.x + a.xVelocity, 0 - a.radius,
                             CANVAS_width * PX + a.radius}
                 /\ b.y \in {a.y + a.yVelocity, 0 - a.radius,
                             CANVAS_height * PX + a.radius}
        /\ sameExplosionSites(state, t)
        /\ t.explosions = animateExplosions(state).explosions

\* a spawning ship with an asteroid over it, after a spawning tick
C3_Witness ==
  /\ isSpawning(state)
  /\ ~isGameOver(state)
  /\ shipHit(state) # 0
  /\ state.ship.blinkTime > 0

\* C4: spawning always ends: under repeated gameLoop ticks a spawning ship
\* (lives > 0) reaches blinkNum = 0.  blinkShip lowers blinkNum by exactly
\* 1 on a tick where blinkTime is 0 and resets blinkTime to
\* ceil(SHIP_BLINK_DURATION * FPS); otherwise it lowers blinkTime by 1 and
\* keeps blinkNum.  Neither is ever negative, and blinkNum rises only when a
\* new ship replaces the old one (a life is lost).
C4_SpawningEnds ==
  /\ [](/\ state.ship.blinkNum >= 0
        /\ state.ship.blinkTime >= 0
        /\ isSpawning(state) =>
             LET a == state.ship
                 b == blinkShip(state).ship
             IN  IF a.blinkTime = 0
                   THEN /\ b.blinkNum = a.blinkNum - 1
                        /\ b.blinkTime = CeilDiv(SHIP_BLINK_DURATION * FPS, 10)
                   ELSE /\ b.blinkNum = a.blinkNum
                        /\ b.blinkTime = a.blinkTime - 1)
  /\ [][state'.ship.blinkNum > state.ship.blinkNum =>
          /\ state'.lives = state.lives - 1
          /\ state'.ship.blinkTime = 0]_vars
  /\ (isSpawning(state) /\ ~isGameOver(state)) ~> ~isSpawning(state)

\* the ship that replaced the one rammed on the last asteroid of level 1 has
\* blinked to the end and plays
C4_Witness ==
  /\ state.level = 2
  /\ state.lives = 1
  /\ isPlaying(state)
  /\ state.ship.blinkTime = CeilDiv(SHIP_BLINK_DURATION * FPS, 10)

\* the fields of a brand-new ship
isNewShip(ship) ==
  /\ ship.x = (CANVAS_width \div 2) * PX
  /\ ship.y = (CANVAS_height \div 2) * PX
  /\ ship.radius = (SHIP_SIZE \div 2) * PX
  /\ ship.angle = UP
  /\ ship.rotation = 0
  /\ ship.xVelocity = 0
  /\ ship.yVelocity = 0
  /\ ~ship.thrusting
  /\ ship.canShoot
  /\ ship.blinkTime = 0
  /\ ship.blinkNum = 10
  /\ ship.lasers = <<>>

\* seq without its element at index i
without(seq, i) == SubSeq(seq, 1, i - 1) \o SubSeq(seq, i + 1, Len(seq))

\* t.explosions is s.explosions and one new explosion of PARTICLE_COUNT
\* particles at (x, y)
oneExplosionMore(s, t, x, y) ==
  /\ Len(t.explosions) = Len(s.explosions) + 1
  /\ SubSeq(t.explosions, 1, Len(s.explosions)) = s.explosions
  /\ t.explosions[Len(t.explosions)].x = x
  /\ t.explosions[Len(t.explosions)].y = y
  /\ Len(t.explosions[Len(t.explosions)].particles) = PARTICLE_COUNT

\* C5: checkShipCollision with lives > 1 and an asteroid over the ship takes
\* exactly one life, replaces the ship by a brand-new one (centre, 90
\* degrees, at rest, canShoot, blinkNum 10, no lasers), fragments the hit
\* asteroid by removeAsteroid, appends exactly one explosion and leaves the
\* score; with no asteroid over the ship it returns its argument.
C5_ShipCollisionRespawns ==
  isPlaying(state) =>
    \A r \in Seeds, s \in {afterMoves(state)} :
      LET t == checkShipCollision(s, r)
          hit == shipHit(s)
      IN  /\ (hit # 0 /\ s.lives > 1) =>
               /\ t.lives = s.lives - 1
               /\ isNewShip(t.ship)
               /\ Len(t.asteroids) =
                    Len(s.asteroids) - 1
                      + (IF s.asteroids[hit].stage = 3 THEN 0 ELSE 2)
               /\ SubSeq(t.asteroids, 1, Len(s.asteroids) - 1)
                    = without(s.asteroids, hit)
               /\ \A i \in Len(s.asteroids)..Len(t.asteroids) :
                    t.asteroids[i].stage = s.asteroids[hit].stage + 1
               /\ oneExplosionMore(s, t, noseX(s.ship), noseY(s.ship))
               /\ t.score = s.score
               /\ t.level = s.level
          /\ hit = 0 => t = s

\* a life has just been lost to a stage-1 asteroid after a key was pressed:
\* the ship is a brand-new one
C5_Witness ==
  /\ state.lives = 2
  /\ state.score = 0
  /\ isNewShip(state.ship)
  /\ Len(state.explosions) = 1
  /\ Len(state.asteroids) = 5
  /\ inputsLeft < MaxInputs

\* C6: at lives = 1 a ship-asteroid collision sets lives to 0, keeps the
\* same ship (position, angle, velocity, lasers, blinkNum) and the whole
\* belt, and appends exactly one explosion.
C6_LastLifeCollision ==
  isPlaying(state) =>
    \A r \in Seeds :
      LET s == afterMoves(state)
          t == checkShipCollision(s, r)
      IN  (shipHit(s) # 0 /\ s.lives = 1) =>
            /\ t.lives = 0
            /\ t.ship = s.ship
            /\ t.asteroids = s.asteroids
            /\ oneExplosionMore(s, t, noseX(s.ship), noseY(s.ship))
            /\ t.score = s.score
            /\ t.level = s.level

\* the game has just ended by a collision: the asteroid that rammed the
\* ship is still over it, and the ship is the one that was playing
C6_Witness ==
  /\ state.lives = 0
  /\ shipHit(state) # 0
  /\ state.asteroids[shipHit(state)].stage = 1
  /\ ~isSpawning(state)
  /\ Len(state.ship.lasers) > 0

\* the points of an asteroid of the given stage
pointsOf(stage) == IF stage = 1 THEN 20 ELSE IF stage = 2 THEN 50 ELSE 100

\* C7: the score changes only in checkLaserCollision, by the points of the
\* destroyed asteroid (stage 1: 20, stage 2: 50, stage 3: 100): a step that
\* changes the score is a Playing tick whose laser check finds an asteroid,
\* and no step lowers the score or changes it otherwise; a ship collision
\* scores nothing.
C7_ScoreOnlyByLaserHit ==
  [][state'.score # state.score =>
       /\ isPlaying(state)
       /\ \E r \in Seeds :
            LET s == checkShipCollision(afterMoves(state), r)
                hit == laserHitAsteroid(s)
            IN  /\ hit # 0
                /\ state'.score = state.score + pointsOf(s.asteroids[hit].stage)
                /\ checkLaserCollision(s, r + 3).score = state'.score
                /\ checkShipCollision(afterMoves(state), r).score = state.score
     ]_vars

\* a stage-1, a stage-2 and a stage-3 asteroid have been shot one after the
\* other and the score is 170
C7_Witness ==
  /\ state.score = 170
  /\ Len(state.explosions) = 5
  /\ state.lives = 1

\* C8: removeAsteroid takes exactly the hit asteroid out, keeps the others
\* as they are and in order, and appends two stage-2 children for a stage-1
\* parent, two stage-3 children for a stage-2 parent and none for a stage-3
\* parent; the children lie at (x - 5, y - 5) and (x + 5, y + 5) of the
\* parent.  The belt afterwards counts one less plus the children.
C8_Fragmentation ==
  [](\A hit \in 1..Len(state.asteroids) :
       \A r \in Seeds :
         \A out \in {removeAsteroid(state.asteroids, hit, state.level, r)} :
           LET belt == state.asteroids
               parent == belt[hit]
               n == Len(belt) - 1
               kids == IF parent.stage = 3 THEN 0 ELSE 2
           IN  /\ Len(out) = n + kids
               /\ SubSeq(out, 1, n) = without(belt, hit)
               /\ kids = 2 =>
                    /\ out[n + 1].stage = parent.stage + 1
                    /\ out[n + 2].stage = parent.stage + 1
                    /\ out[n + 1].x = parent.x - 5 * PX
                    /\ out[n + 1].y = parent.y - 5 * PX
                    /\ out[n + 2].x = parent.x + 5 * PX
                    /\ out[n + 2].y = parent.y + 5 * PX)

\* a stage-1 asteroid has been fragmented while an asteroid equal to it in
\* every field stays in the belt
C8_Witness ==
  /\ state.lives = 2
  /\ Len(state.asteroids) = 5
  /\ state.asteroids[1].stage = 1
  /\ state.asteroids[4].stage = 2
  /\ state.asteroids[5].stage = 2
  /\ state.asteroids[4].x + 10 * PX = state.asteroids[5].x
  /\ isNewShip(state.ship)

\* the lasers of s that do not overlap asteroid a, in order
lasersClearOf(s, a) ==
  LET RECURSIVE keep(_)
      keep(i) ==
        IF i > Len(s.ship.lasers) THEN <<>>
        ELSE (IF circleCollision(s.ship.lasers[i], a)
                THEN <<>> ELSE <<s.ship.lasers[i]>>) \o keep(i + 1)
  IN  keep(1)

\* C9: on a laser hit the laser list afterwards is the list before, in
\* order, without every laser that overlaps the destroyed asteroid; the
\* triggering laser is among the removed ones; exactly one explosion is
\* appended, at the triggering laser's position.
C9_LaserHitRemovesOverlapping ==
  isPlaying(state) =>
    \A r \in Seeds :
      LET s == checkShipCollision(afterMoves(state), r)
          t == checkLaserCollision(s, r + 3)
          laser == laserHit(s)
          hit == laserHitAsteroid(s)
      IN  hit # 0 =>
            /\ laser # 0
            /\ circleCollision(s.ship.lasers[laser], s.asteroids[hit])
            /\ t.ship.lasers = lasersClearOf(s, s.asteroids[hit])
            /\ Len(t.ship.lasers) < Len(s.ship.lasers)
            /\ \A i \in 1..Len(t.ship.lasers) :
                 ~circleCollision(t.ship.lasers[i], s.asteroids[hit])
            /\ oneExplosionMore(s, t, s.ship.lasers[laser].x,
                                s.ship.lasers[laser].y)

\* a hit has removed the triggering laser and the laser fired with it, and
\* has kept the two lasers that were elsewhere
C9_Witness ==
  /\ state.score = 20
  /\ state.lives = 1
  /\ Len(state.ship.lasers) = 2
  /\ Len(state.explosions) = 3
  /\ ticksLeft = MaxTicks - 1

\* C10: when the asteroid list is empty at the level check of a tick, the
\* tick ends with level + 1 and a new belt of ASTEROIDS_NUM + the new level
\* stage-1 asteroids (not empty); while the list holds an asteroid
\* checkLevelCompleted changes nothing.
C10_LevelProgression ==
  isPlaying(state) =>
    \A r \in Seeds :
      \A s \in {afterCollisions(state, r)} :
      LET t == checkLevelCompleted(s, r + 5)
      IN  IF Len(s.asteroids) = 0
            THEN /\ t.level = s.level + 1
                 /\ Len(t.asteroids) = ASTEROIDS_NUM + t.level
                 /\ Len(t.asteroids) > 0
                 /\ \A i \in 1..Len(t.asteroids) : t.asteroids[i].stage = 1
                 /\ gameLoop(state, r).level = state.level + 1
                 /\ Len(gameLoop(state, r).asteroids) = 4 + state.level
            ELSE /\ t = s
                 /\ gameLoop(state, r).level = state.level

\* the last asteroid of level 1 has been shot: level 2 with its five
\* asteroids
C10_Witness ==
  /\ state.level = 2
  /\ state.score = 2080
  /\ Len(state.asteroids) = 5
  /\ \A i \in 1..5 : state.asteroids[i].stage = 1

\* C11 as claimed: createAsteroidBelt(level, ship) returns ASTEROIDS_NUM +
\* level stage-1 asteroids at whole-pixel positions inside the board, and a
\* candidate position is rejected exactly when it is nearer to the ship's
\* centre than the largest asteroid's diameter plus the ship's radius
\* (100 + 10 pixels).
C11_BeltAwayFromShip ==
  LET ship == state.ship
      near(x, y) ==
        distBetweenPointsLess(ship.x, ship.y, x, y,
                              ASTEROIDS_SIZE[1] * PX + ship.radius)
  IN  /\ \A r \in 0..(Len(RandomStream) - 1) :
           LET x == ((random(r) * CANVAS_width) \div 100) * PX
               y == ((random(r + 1) * CANVAS_height) \div 100) * PX
           IN  (beltCandidate(ship, r, 1) = -1) <=> near(x, y)
      /\ \A r \in Seeds :
           beltEnds(ASTEROIDS_NUM + state.level + 1, ship, r) =>
             LET belt == createAsteroidBelt(state.level + 1, ship, r)
             IN  /\ Len(belt) = ASTEROIDS_NUM + state.level + 1
                 /\ \A i \in 1..Len(belt) :
                      /\ belt[i].stage = 1
                      /\ belt[i].x % PX = 0
                      /\ belt[i].y % PX = 0
                      /\ belt[i].x \in 0..(CANVAS_width * PX)
                      /\ belt[i].y \in 0..(CANVAS_height * PX)
                      /\ ~near(belt[i].x, belt[i].y)

\* the coordinate the edge rule asks for: v inside [-r, size + r] stays, v
\* beyond size + r becomes -r, v below -r becomes size + r
wrapped(v, r, size) ==
  IF v > size + r THEN -r ELSE IF v < -r THEN size + r ELSE v

\* C12: in moveShip and moveAsteroids, with v = old coordinate + velocity
\* and r the radius, the new coordinate is v when -r <= v <= size + r,
\* exactly -r when v > size + r and exactly size + r when v < -r, on each
\* axis; right after the step every ship and asteroid coordinate lies in
\* [-r, size + r].
C12_Wraparound ==
  LET W == CANVAS_width * PX
      H == CANVAS_height * PX
      old == state.ship
      new == moveShip(state).ship
      belt == moveAsteroids(state).asteroids
  IN  /\ new.x = wrapped(old.x + old.xVelocity, old.radius, W)
      /\ new.y = wrapped(old.y + old.yVelocity, old.radius, H)
      /\ new.x \in (-old.radius)..(W + old.radius)
      /\ new.y \in (-old.radius)..(H + old.radius)
      /\ Len(belt) = Len(state.asteroids)
      /\ \A i \in 1..Len(belt) :
           LET a == state.asteroids[i]
           IN  /\ belt[i].x = wrapped(a.x + a.xVelocity, a.radius, W)
               /\ belt[i].y = wrapped(a.y + a.yVelocity, a.radius, H)
               /\ belt[i].x \in (-a.radius)..(W + a.radius)
               /\ belt[i].y \in (-a.radius)..(H + a.radius)

\* the ship has just re-entered at the left edge, and asteroids at the
\* right, the left, the top and the bottom edge; one of them would have
\* been a pixel beyond width + r
C12_Witness ==
  /\ state.ship.x = -state.ship.radius
  /\ state.ship.xVelocity > 0
  /\ ticksLeft = MaxTicks - 1
  /\ \E i, j, k \in 1..Len(state.asteroids) :
       /\ state.asteroids[i].x = CANVAS_width * PX + state.asteroids[i].radius
       /\ state.asteroids[j].x = -state.asteroids[j].radius
       /\ state.asteroids[j].y = -state.asteroids[j].radius
       /\ state.asteroids[k].y = CANVAS_height * PX + state.asteroids[k].radius

\* (x, y) lies in [0, width] x [0, height]
onBoard(x, y) ==
  /\ x \in 0..(CANVAS_width * PX)
  /\ y \in 0..(CANVAS_height * PX)

\* laser l moved by its velocity, everything else kept
advanced(l) == [l EXCEPT !.x = l.x + l.xVelocity, !.y = l.y + l.yVelocity]

\* C13 as claimed: moveLasers advances each laser by its velocity and drops
\* the lasers whose position falls outside the board: after the step no
\* laser that remains in the list lies outside [0, width] x [0, height];
\* the survivors keep their order and their velocity.
C13_NoLaserOffBoardAfterStep ==
  LET before == state.ship.lasers
      kept == SelectSeq(before, LAMBDA l : onBoard(l.x + l.xVelocity,
                                                   l.y + l.yVelocity))
      moved == moveLasers(state).ship.lasers
  IN  /\ Len(moved) = Len(kept)
      /\ \A i \in 1..Len(moved) :
           /\ i <= Len(kept) => moved[i] = advanced(kept[i])
           /\ onBoard(moved[i].x, moved[i].y)

\* C13, amended: moveLasers drops the lasers that lie outside the board
\* before the step and advances every other laser by its velocity, without
\* wrapping; the survivors keep their order and their velocity, and each was
\* on the board before the step (so it is at most one step beyond it).
C13_LasersOffBoardDropped ==
  LET before == state.ship.lasers
      kept == SelectSeq(before, LAMBDA l : onBoard(l.x, l.y))
      moved == moveLasers(state).ship.lasers
  IN  /\ Len(moved) = Len(kept)
      /\ \A i \in 1..Len(moved) :
           /\ moved[i] = advanced(kept[i])
           /\ moved[i].xVelocity = kept[i].xVelocity
           /\ moved[i].yVelocity = kept[i].yVelocity
           /\ onBoard(moved[i].x - moved[i].xVelocity,
                      moved[i].y - moved[i].yVelocity)
      /\ [state EXCEPT !.ship.lasers = <<>>]
           = [moveLasers(state) EXCEPT !.ship.lasers = <<>>]

\* a tick has moved a laser across the top edge and the laser is still in
\* the list
C13_Witness ==
  /\ ticksLeft = MaxTicks - 1
  /\ \E i \in 1..Len(state.ship.lasers) :
       /\ state.ship.lasers[i].y < 0
       /\ state.ship.lasers[i].y - state.ship.lasers[i].yVelocity >= 0

\* what shootLaser is to do in the current state: with canShoot, one laser
\* more at the end of the list and canShoot false, nothing else changed;
\* without canShoot, nothing
firesOnce ==
  LET s == state
      t == shootLaser(state)
  IN  IF s.ship.canShoot
        THEN /\ Len(t.ship.lasers) = Len(s.ship.lasers) + 1
             /\ SubSeq(t.ship.lasers, 1, Len(s.ship.lasers)) = s.ship.lasers
             /\ t.ship.lasers[Len(t.ship.lasers)].x = noseX(s.ship)
             /\ t.ship.lasers[Len(t.ship.lasers)].y = noseY(s.ship)
             /\ ~t.ship.canShoot
             /\ [t EXCEPT !.ship.lasers = <<>>, !.ship.canShoot = TRUE]
                  = [s EXCEPT !.ship.lasers = <<>>]
        ELSE t = s

\* a step creates a laser only from canShoot, one at a time, and spends
\* canShoot
firesFromCanShoot ==
  Len(state'.ship.lasers) > Len(state.ship.lasers) =>
    /\ state.ship.canShoot
    /\ ~state'.ship.canShoot
    /\ Len(state'.ship.lasers) = Len(state.ship.lasers) + 1

\* C14 as claimed: shootLaser with canShoot appends exactly one laser and
\* sets canShoot false; without canShoot it changes nothing; only
\* enableLaser sets canShoot back to true, so that the lasers created never
\* outnumber the enableLaser actions by more than one.
C14_FireCooldown ==
  /\ []firesOnce
  /\ [][firesFromCanShoot]_vars
  /\ [][(~state.ship.canShoot /\ state'.ship.canShoot)
          => state' = enableLaser(state)]_vars

\* C14, amended: shootLaser with canShoot appends exactly one laser and
\* sets canShoot false; without canShoot it changes nothing; canShoot is
\* set back to true only by enableLaser or by the new ship that replaces a
\* rammed one (a life is lost), so that the lasers created never outnumber
\* the enableLaser actions and the lives lost by more than one.
C14_FireCooldownOrNewShip ==
  /\ []firesOnce
  /\ [][firesFromCanShoot]_vars
  /\ [][(~state.ship.canShoot /\ state'.ship.canShoot)
          => \/ state' = enableLaser(state)
             \/ /\ state'.lives = state.lives - 1
                /\ isNewShip(state'.ship)]_vars

\* the ship that replaced a rammed one has fired while it blinks
C14_Witness ==
  /\ state.lives = 2
  /\ isSpawning(state)
  /\ Len(state.ship.lasers) = 1
  /\ ~state.ship.canShoot

\* s and t agree in everything but ship.rotation, ship.thrusting and
\* ship.canShoot
sameButControls(s, t) ==
  LET blank(u) == [u EXCEPT !.ship.rotation = 0, !.ship.thrusting = FALSE,
                            !.ship.canShoot = FALSE]
  IN  blank(s) = blank(t)

\* C15: an input action changes only its own field.  rotateLeft,
\* rotateRight and rotateStop set ship.rotation to +pi/FPS, -pi/FPS and 0,
\* thrustOn and thrustStop set ship.thrusting, enableLaser sets
\* ship.canShoot; position, angle, velocity, lasers, asteroids, explosions,
\* score, level and lives stay.  rotateStop at rotation 0 and thrustStop
\* without thrust change nothing, and every one of these actions done twice
\* is the action done once.
C15_InputsChangeOwnField ==
  LET s == state
      piOverFPS == (TURN \div 2) \div FPS
      do(a, u) == reducer(u, a, 0)
      rotates(a, by) ==
        /\ do(a, s).ship.rotation = by
        /\ do(a, s).ship.thrusting = s.ship.thrusting
        /\ do(a, s).ship.canShoot = s.ship.canShoot
      thrusts(a, on) ==
        /\ do(a, s).ship.thrusting = on
        /\ do(a, s).ship.rotation = s.ship.rotation
        /\ do(a, s).ship.canShoot = s.ship.canShoot
  IN  /\ rotates("rotateLeft", piOverFPS)
      /\ rotates("rotateRight", -piOverFPS)
      /\ rotates("rotateStop", 0)
      /\ thrusts("thrustOn", TRUE)
      /\ thrusts("thrustStop", FALSE)
      /\ do("enableLaser", s).ship.canShoot
      /\ do("enableLaser", s).ship.rotation = s.ship.rotation
      /\ do("enableLaser", s).ship.thrusting = s.ship.thrusting
      /\ \A a \in {"rotateLeft", "rotateRight", "rotateStop", "thrustOn",
                   "thrustStop", "enableLaser"} :
           /\ sameButControls(s, do(a, s))
           /\ do(a, do(a, s)) = do(a, s)
      /\ s.ship.rotation = 0 => do("rotateStop", s) = s
      /\ ~s.ship.thrusting => do("thrustStop", s) = s

\* a game in its second Playing tick whose ship turns right under thrust:
\* both keys have been pressed
C15_Witness ==
  /\ state.ship.rotation = -((TURN \div 2) \div FPS)
  /\ state.ship.thrusting
  /\ inputsLeft = 0
  /\ ticksLeft < MaxTicks

\* C16: an action value that is none of the eight known actions is a no-op
\* of the reducer: the state is returned unchanged (and nothing is thrown:
\* the reducer has a value).
C16_UnknownActionNoOp ==
  /\ UnknownActions \cap GameActions = {}
  /\ \A action \in UnknownActions :
       \A r \in Seeds : reducer(state, action, r) = state

\* both dispatches of the run have been spent and the game is still the
\* new game it was
C16_Witness ==
  /\ inputsLeft = 0
  /\ ticksLeft = MaxTicks
  /\ \E r \in Seeds : state = createGameState(r)

\* the velocity components of the ship in s
velocities(s) == <<s.ship.xVelocity, s.ship.yVelocity>>

\* the current state with its ship coasting at (v, v)
coastingAt(v) ==
  [state EXCEPT !.ship.thrusting = FALSE, !.ship.xVelocity = v,
                !.ship.yVelocity = v]

decays(v, w) ==
  /\ Abs(100 * FPS * (v - w) - FRICTION * v) <= 50 * FPS + 50
  /\ Abs(w) <= Abs(v)
  /\ (w > 0) = (v > 0)
  /\ (w = 0) = (v = 0)
  /\ Abs(v) > 43 => Abs(w) < Abs(v)

explosionOfDecay(x, y, r, decay) ==
  LET explosion == createExplosion(x, y, r)
  IN  [explosion EXCEPT !.particles =
         [i \in 1..Len(@) |-> [@[i] EXCEPT !.decay = decay]]]

\* s after n animation ticks
RECURSIVE animated(_, _)
animated(s, n) ==
  IF n = 0 THEN s ELSE reduce(animated(s, n - 1), animateExplosions)

\* the number of animation ticks, counted from n, after which the first
\* explosion of s has lost a particle
RECURSIVE lifetime(_, _)
lifetime(s, n) ==
  IF Len(s.explosions[1].particles) < PARTICLE_COUNT THEN n
  ELSE lifetime(reduce(s, animateExplosions), n + 1)

\* the current state with a single explosion, at (x, y), of particles of
\* alpha 1 and decay PARTICLE_DECAY_MAX
withFreshExplosion(x, y, r) ==
  [state EXCEPT !.explosions =
     <<explosionOfDecay(x, y, r, PARTICLE_DECAY_MAX)>>]

\* an asteroid or the ship has just blown up: the last explosion of the
\* state is one tick old, each particle at alpha 1 less its decay
justExploded ==
  /\ state.explosions # <<>>
  /\ LET last == state.explosions[Len(state.explosions)]
     IN  /\ Len(last.particles) = PARTICLE_COUNT
         /\ \A i \in 1..PARTICLE_COUNT :
              last.particles[i].alpha = 1000 - last.particles[i].decay

\* C18 as claimed: a particle created with alpha = 1.0 and decay = 0.05 is
\* still in its explosion after 19 animation ticks and gone after the 20th.
C18_FadesInTwentyTicks ==
  (justExploded /\ isGameOver(state)) =>
    \A r \in Seeds :
      LET last == state.explosions[Len(state.explosions)]
          s == withFreshExplosion(last.x, last.y, r)
      IN  /\ lifetime(s, 0) = 20
          /\ animated(s, 20).explosions[1].particles = <<>>

\* C18, amended: a particle created with alpha = 1.0 and decay = 0.05 is
\* removed from its explosion after exactly 19 animation ticks: it is
\* present after the 18th, where its alpha is twice the decay, and absent
\* after the 19th, where the lowered alpha equals the decay.  Checked of an
\* explosion of such particles where the last ship has just blown up: from
\* there on a tick of gameLoop is animateExplosions and nothing else.
C18_FadesInNineteenTicks ==
  (justExploded /\ isGameOver(state)) =>
    \A r \in Seeds :
      LET last == state.explosions[Len(state.explosions)]
          s == withFreshExplosion(last.x, last.y, r)
      IN  /\ gameLoop(s, r) = reduce(s, animateExplosions)
          /\ \A late \in {animated(s, 18)} :
               /\ Len(late.explosions[1].particles) = PARTICLE_COUNT
               /\ \A i \in 1..PARTICLE_COUNT :
                    late.explosions[1].particles[i].alpha
                      = 2 * PARTICLE_DECAY_MAX
               /\ animateExplosions(late).explosions[1].particles = <<>>

\* the ship has blown up with its last life in the tick before, and an
\* explosion of particles of decay 0.05 made where it was lasts 19 ticks
C18_Witness ==
  /\ justExploded
  /\ isGameOver(state)
  /\ ticksLeft < MaxTicks
  /\ LET last == state.explosions[Len(state.explosions)]
     IN  lifetime(withFreshExplosion(last.x, last.y, 0), 0) = 19

\* the particles of all the explosions of s
particlesOf(s) ==
  UNION { {s.explosions[e].particles[i] :
             i \in 1..Len(s.explosions[e].particles)} :
          e \in 1..Len(s.explosions) }

\* the particles of a list that a tick leaves in their explosion
RECURSIVE outlasting(_)
outlasting(particles) ==
  IF particles = <<>> THEN <<>>
  ELSE LET p == Head(particles)
       IN  (IF p.alpha - p.decay <= p.decay THEN <<>> ELSE <<p>>)
             \o outlasting(Tail(particles))

\* C19: every particle of a reachable state has 0 < alpha <= 1, and alpha
\* above its own decay; moveParticle lowers alpha by decay and removes the
\* particle exactly when the lowered alpha is <= decay (not when it is <= 0);
\* the trail of a surviving particle has exactly PARTICLE_TRAIL entries, the
\* newest being the position before the step and the others the trail before
\* the step less its oldest entry; animateExplosions keeps of each explosion
\* the survivors, in order.
C19_ParticleAlphaAndTrail ==
  [](/\ \A p \in particlesOf(state) :
          /\ 0 < p.alpha
          /\ p.alpha <= 1000
          /\ p.alpha > p.decay
          /\ Len(p.coordinates) = PARTICLE_TRAIL
          /\ \A moved \in {moveParticle(p)} :
               /\ (moved = <<>>) = (p.alpha - p.decay <= p.decay)
               /\ moved # <<>> =>
                    /\ Len(moved) = 1
                    /\ moved[1].alpha = p.alpha - p.decay
                    /\ moved[1].decay = p.decay
                    /\ Len(moved[1].coordinates) = PARTICLE_TRAIL
                    /\ moved[1].coordinates[1] = <<p.x, p.y>>
                    /\ \A k \in 2..PARTICLE_TRAIL :
                         moved[1].coordinates[k] = p.coordinates[k - 1]
     /\ \A next \in {animateExplosions(state)} :
          /\ Len(next.explosions) = Len(state.explosions)
          /\ \A e \in 1..Len(state.explosions) :
               \A kept \in {outlasting(state.explosions[e].particles)} :
                 /\ Len(next.explosions[e].particles) = Len(kept)
                 /\ \A i \in 1..Len(kept) :
                      next.explosions[e].particles[i] = moveParticle(kept[i])[1])

\* an explosion holds a particle that has moved, its trail beginning where it
\* was a tick ago, and that the next tick keeps, and a particle that the next
\* tick removes while its lowered alpha is still positive
C19_Witness ==
  \E e \in 1..Len(state.explosions) :
    LET particles == state.explosions[e].particles
    IN  /\ \E i \in 1..Len(particles) :
             /\ particles[i].alpha < 1000
             /\ particles[i].coordinates[1] # <<particles[i].x, particles[i].y>>
             /\ particles[i].coordinates[1] # particles[i].coordinates[2]
             /\ moveParticle(particles[i]) # <<>>
        /\ \E i \in 1..Len(particles) :
             /\ particles[i].alpha - particles[i].decay > 0
             /\ moveParticle(particles[i]) = <<>>
        /\ Len(animateExplosions(state).explosions[e].particles)
             \in 1..(Len(particles) - 1)

\* the ship, the asteroids and the lasers of s
entities(s) == <<s.ship>> \o s.asteroids \o s.ship.lasers

\* the square of the distance between the centres of a and b, or the square
\* of d where the centres are d or more apart
squaredDistanceUpTo(a, b, d) ==
  LET dx == Abs(a.x - b.x)
      dy == Abs(a.y - b.y)
  IN  IF dx >= d \/ dy >= d THEN d * d
      ELSE IF dx * dx + dy * dy < d * d THEN dx * dx + dy * dy ELSE d * d

\* a and b touch: their centres are exactly the sum of their radii apart
touching(a, b) ==
  LET d == a.radius + b.radius
      dx == Abs(a.x - b.x)
      dy == Abs(a.y - b.y)
  IN  dx <= d /\ dy <= d /\ dx * dx + dy * dy = d * d

\* C20: circleCollision(a, b) is true iff the distance between the centres
\* is strictly less than the sum of the radii, so that circles exactly
\* touching do not collide, and circleCollision(a, b) = circleCollision(b, a).
\* Checked of every pair of ship, asteroids and lasers of a state.
C20_CircleCollision ==
  [](LET all == entities(state)
     IN  \A i \in 1..Len(all) :
           \A j \in i..Len(all) :
             LET d == all[i].radius + all[j].radius
                 nearer == squaredDistanceUpTo(all[i], all[j], d) < d * d
             IN  /\ circleCollision(all[i], all[j]) = nearer
                 /\ circleCollision(all[j], all[i]) = nearer)

\* the ship has come out of the left edge exactly a radius sum from an
\* asteroid: they touch, the tick found no collision and took no life; two
\* other circles of the same state overlap
C20_Witness ==
  /\ isPlaying(state)
  /\ state.lives = 3
  /\ state.ship.x = -state.ship.radius
  /\ state.explosions = <<>>
  /\ \E i \in 1..Len(state.asteroids) :
       /\ touching(state.ship, state.asteroids[i])
       /\ ~circleCollision(state.ship, state.asteroids[i])
       /\ ~circleCollision(state.asteroids[i], state.ship)
  /\ \E i, j \in 1..Len(entities(state)) :
       /\ i # j
       /\ circleCollision(entities(state)[i], entities(state)[j])
       /\ circleCollision(entities(state)[j], entities(state)[i])

\* C21: no transition mutates its input: after reducer(state, action), and
\* after coreReducer, updateEntities and applyVelocity in the engine, the
\* state object that was passed in and every entity reachable from it hold
\* the field values they had before the call; the result is a new snapshot.
\* Stated of the engine: the state passed to the last call of coreReducer,
\* read now, is what it was when the call began.
C21_NoTransitionMutatesInput ==
  fieldsOf(engine.arg, engine.heap) = engine.argWas

\* C22: while GameBoard is mounted exactly one animation-frame callback is
\* pending between callbacks, and its handle is the value of frameId (loop
\* requests the next frame before it dispatches gameLoop); once the cleanup
\* has run cancelAnimationFrame(frameId) no callback is pending and no
\* gameLoop is dispatched any more, until GameBoard is mounted again.
C22_FrameLoopCancellation ==
  /\ [](frame.mounted =>
          frame.pending = {[handle |-> frame.frameId[frame.mounts],
                            effect |-> frame.mounts]})
  /\ [](~frame.mounted => frame.pending = {})
  /\ [][~frame.mounted =>
          /\ frame'.dispatched = frame.dispatched
          /\ state' = state]_vars

\* GameBoard has been mounted once, three or more frames have dispatched
\* gameLoop, and the cleanup has run: nothing is pending
C22_Witness ==
  /\ frame.mounts = 1
  /\ ~frame.mounted
  /\ frame.dispatched >= 3
  /\ frame.frameId[1] = frame.handles
  /\ frame.pending = {}

\* the ship of s is at rest and faces straight up
atRestFacingUp(s) ==
  /\ s.ship.angle = UP
  /\ s.ship.xVelocity = 0
  /\ s.ship.yVelocity = 0
  /\ s.ship.rotation = 0
  /\ ~s.ship.thrusting

\* the laser shootLaser adds in s: at the nose of a ship facing up, flying
\* straight up at LASER_SPEED / FPS a tick
firedStraightUp(s) ==
  LET fired == shootLaser(s).ship.lasers
      laser == fired[Len(fired)]
  IN  /\ Len(fired) = Len(s.ship.lasers) + 1
      /\ laser.x = s.ship.x
      /\ 3 * (s.ship.y - laser.y) = 4 * s.ship.radius
      /\ laser.xVelocity = 0
      /\ laser.yVelocity * FPS = -(LASER_SPEED * PX)

\* laser l flies straight up
fliesUp(l) == l.xVelocity = 0 /\ l.yVelocity * FPS = -(LASER_SPEED * PX)

\* C23 as claimed: a laser fired from a ship at rest that faces straight up
\* has, after N gameLoop ticks, its y lower by exactly N * (LASER_SPEED /
\* FPS) and its x as it was, for every N for which it is still on the
\* board: every gameLoop tick takes each such laser that stays one step up.
C23_LaserFlightEveryTick ==
  /\ (atRestFacingUp(state) /\ state.ship.canShoot) => firedStraightUp(state)
  /\ \A r \in Seeds :
       \A t \in {gameLoop(state, r)} :
         \A j \in 1..Len(t.ship.lasers) :
           fliesUp(t.ship.lasers[j]) =>
             \E i \in 1..Len(state.ship.lasers) :
               t.ship.lasers[j] = advanced(state.ship.lasers[i])

\* C23, amended: a laser fired from a ship at rest that faces straight up
\* starts at the nose with velocity (0, -LASER_SPEED / FPS); every gameLoop
\* tick processed in the Playing mode takes each laser that stays in the list
\* exactly one step of its velocity further, and a tick processed in the
\* Spawning or the GameOver mode leaves the lasers where they are.  After N
\* ticks the laser's y is lower by P * (LASER_SPEED / FPS), P the number of
\* those ticks processed in the Playing mode, and its x as it was.
C23_LaserFlightPlayingTicks ==
  [](/\ (atRestFacingUp(state) /\ state.ship.canShoot) => firedStraightUp(state)
     /\ \A r \in Seeds :
          \A t \in {gameLoop(state, r)} :
            IF isPlaying(state)
              THEN \A j \in 1..Len(t.ship.lasers) :
                     \E i \in 1..Len(state.ship.lasers) :
                       t.ship.lasers[j] = advanced(state.ship.lasers[i])
              ELSE t.ship.lasers = state.ship.lasers)

\* a laser fired by a ship at rest facing up is, three Playing ticks into
\* the run, three steps above the nose
C23_Witness ==
  /\ isPlaying(state)
  /\ atRestFacingUp(state)
  /\ ticksLeft = 0
  /\ \E i \in 1..Len(state.ship.lasers) :
       LET laser == state.ship.lasers[i]
       IN  /\ fliesUp(laser)
           /\ laser.x = state.ship.x
           /\ laser.y = noseY(state.ship) - 3 * ((LASER_SPEED * PX) \div FPS)

\* C24: every asteroid of a reachable state has a stage in {1, 2, 3} and the
\* radius ceil(ASTEROIDS_SIZE[stage - 1] / 2) of its stage (50, 25, 13
\* pixels), so the radius strictly decreases with the stage; a tick moves an
\* asteroid without changing its stage or radius; removeAsteroid gives a
\* stage-3 asteroid no children.
C24_StageAndRadius ==
  /\ \A i \in 1..Len(state.asteroids) :
       LET a == state.asteroids[i]
       IN  /\ a.stage \in {1, 2, 3}
           /\ a.radius = <<50, 25, 13>>[a.stage] * PX
           /\ a.stage < 3 =>
                createAsteroid(a.x, a.y, state.level, a.stage + 1, 0).radius
                  < a.radius
  /\ \A moved \in {moveAsteroids(state).asteroids} :
       /\ Len(moved) = Len(state.asteroids)
       /\ \A i \in 1..Len(moved) :
            /\ moved[i].stage = state.asteroids[i].stage
            /\ moved[i].radius = state.asteroids[i].radius
  /\ \A i \in 1..Len(state.asteroids) :
       state.asteroids[i].stage = 3 =>
         \A r \in Seeds :
           Len(removeAsteroid(state.asteroids, i, state.level, r))
             = Len(state.asteroids) - 1

\* an asteroid of each stage has been shot: the belt holds children of the
\* second and of the third stage, and the stage-3 asteroid left none
C24_Witness ==
  /\ state.score = 170
  /\ \E i, j \in 1..Len(state.asteroids) :
       /\ state.asteroids[i].stage = 2
       /\ state.asteroids[i].radius = 25 * PX
       /\ state.asteroids[j].stage = 3
       /\ state.asteroids[j].radius = 13 * PX

\* where the ship, the asteroids and the lasers of a game are
positions(s) ==
  [ ship |-> <<s.ship.x, s.ship.y>>,
    asteroids |-> [i \in 1..Len(s.asteroids) |->
                     <<s.asteroids[i].x, s.asteroids[i].y>>],
    lasers |-> [i \in 1..Len(s.ship.lasers) |->
                  <<s.ship.lasers[i].x, s.ship.lasers[i].y>>] ]

\* where the entities of an engine are; <<>> for one without a position
placesOf(e) ==
  [i \in 1..Len(e.heap) |->
     IF hasPosition(e.heap[i]) THEN <<e.heap[i].x, e.heap[i].y>> ELSE <<>>]

\* the places after every moving entity has advanced once by its velocity
advancedOnce(e) ==
  [i \in 1..Len(e.heap) |->
     IF hasPosition(e.heap[i]) /\ hasVelocity(e.heap[i])
          /\ e.state.systems # <<>>
       THEN <<e.heap[i].x + e.heap[i].xVelocity,
              e.heap[i].y + e.heap[i].yVelocity>>
       ELSE placesOf(e)[i]]

\* C25: input is applied at tick boundaries.  An input action never advances
\* the position of an entity; positions advance by velocity only when a
\* gameLoop action is processed, once per gameLoop action.  This holds for
\* the reducer of the game (an input action leaves the ship, every asteroid
\* and every laser in flight where it was) and for the engine's coreReducer
\* (a dispatch of an input action leaves every entity where it was, a
\* dispatch of gameLoop advances every moving entity once).
C25_InputAtTickBoundaries ==
  /\ [](\A a \in EngineInputs :
          \A t \in {reducer(state, a, 0)} :
            /\ t.ship.x = state.ship.x /\ t.ship.y = state.ship.y
            /\ positions(t).asteroids = positions(state).asteroids
            /\ SubSeq(positions(t).lasers, 1, Len(state.ship.lasers))
                  = positions(state).lasers)
  /\ [][engine'.calls = engine.calls + 1 =>
          IF engine'.last \in EngineInputs
            THEN placesOf(engine') = placesOf(engine)
            ELSE placesOf(engine') = advancedOnce(engine)]_vars

\* the state checkLaserCollision receives in a Playing tick
afterShipCollision(s, r) ==
  reduce(afterMoves(s), LAMBDA p : checkShipCollision(p, r))

\* the pairs <<laser, asteroid>> of s, by index, that overlap
overlaps(s) ==
  {p \in (1..Len(s.ship.lasers)) \X (1..Len(s.asteroids)) :
     circleCollision(s.ship.lasers[p[1]], s.asteroids[p[2]])}

\* C26: checkLaserCollision resolves at most one hit per tick.  With no
\* overlapping pair of a laser and an asteroid the state is returned
\* unchanged.  Otherwise, however many lasers overlap however many
\* asteroids, the triggering laser is the first laser in list order that
\* overlaps any asteroid and the destroyed asteroid the first asteroid in
\* list order that overlaps that laser; exactly that asteroid is taken out
\* of the belt (its children, if any, are appended), its points are awarded
\* once and one explosion is appended at the triggering laser.
C26_OneLaserHitPerTick ==
  (isPlaying(state) /\ state.ship.lasers # <<>>) =>
    \A r \in Seeds :
      \A s \in {afterShipCollision(state, r)} :
        \A t \in {checkLaserCollision(s, r + 3)} :
          \A hits \in {overlaps(s)} :
            IF hits = {} THEN t = s
            ELSE
              \E p \in hits :
                /\ \A q \in hits : p[1] <= q[1]
                /\ \A q \in hits : q[1] = p[1] => p[2] <= q[2]
                /\ SubSeq(t.asteroids, 1, Len(s.asteroids) - 1)
                     = SubSeq(s.asteroids, 1, p[2] - 1)
                         \o SubSeq(s.asteroids, p[2] + 1, Len(s.asteroids))
                /\ Len(t.asteroids) = Len(s.asteroids) - 1
                     + (IF s.asteroids[p[2]].stage < 3 THEN 2 ELSE 0)
                /\ t.score = s.score + POINTS[s.asteroids[p[2]].stage]
                /\ Len(t.explosions) = Len(s.explosions) + 1
                /\ t.explosions[Len(t.explosions)].x = s.ship.lasers[p[1]].x
                /\ t.explosions[Len(t.explosions)].y = s.ship.lasers[p[1]].y

\* a Playing tick in which three lasers are over three asteroids, each over
\* one of its own, has destroyed one asteroid for 20 points: the other two
\* pairs still overlap
C26_Witness ==
  /\ isPlaying(state)
  /\ state.score = 20
  /\ \E p, q \in overlaps(state) : p[1] # q[1] /\ p[2] # q[2]

\* the asteroids of s, by index, that overlap the ship
overShip(s) ==
  {i \in 1..Len(s.asteroids) : circleCollision(s.ship, s.asteroids[i])}

\* C27: checkShipCollision is first-match.  With no asteroid over the ship
\* the state is returned unchanged.  Otherwise, however many asteroids
\* overlap the ship, exactly one life is lost and exactly one explosion is
\* appended, and the asteroid fragmented (while a life is left) is the one
\* with the lowest index in the asteroid list, whether or not it is the
\* nearest: every other asteroid stays, in order, ahead of the fragments.
C27_ShipCollisionFirstMatch ==
  isPlaying(state) =>
    \A r \in Seeds :
      \A s \in {afterMoves(state)} :
        \A t \in {checkShipCollision(s, r)} :
          \A over \in {overShip(s)} :
            IF over = {} THEN t = s
            ELSE
              /\ t.lives = s.lives - 1
              /\ Len(t.explosions) = Len(s.explosions) + 1
              /\ SubSeq(t.explosions, 1, Len(s.explosions)) = s.explosions
              /\ IF s.lives > 1
                   THEN \E hit \in over :
                          /\ \A i \in over : hit <= i
                          /\ SubSeq(t.asteroids, 1, Len(s.asteroids) - 1)
                               = SubSeq(s.asteroids, 1, hit - 1)
                                   \o SubSeq(s.asteroids, hit + 1,
                                             Len(s.asteroids))
                          /\ Len(t.asteroids) = Len(s.asteroids) - 1
                               + (IF s.asteroids[hit].stage < 3 THEN 2 ELSE 0)
                   ELSE t.asteroids = s.asteroids

\* the ship has been hit once while three asteroids lay over it: the first
\* in the list was fragmented, and the belt still holds, over the new ship,
\* an asteroid that lay nearer than the one that was hit
C27_Witness ==
  /\ state.lives = 2
  /\ Len(state.explosions) = 1
  /\ Len(state.asteroids) = 5
  /\ {1, 2} \subseteq overShip(state)
  /\ squaredDistance(state.ship, state.asteroids[2])
       < squaredDistance(state.ship, state.asteroids[1])

----------------------------------------------------------------------------
(* checkLaserCollision, lines 568-593, applied to configurations in which   *)
(* several lasers lie over several asteroids.                               *)

\* lasers in flight from a ship at the centre: two on one line, a tick
\* apart, one on a second line and one just fired
crossingLasers ==
  <<flown(50, 16), flown(50, 17), flown(40, 9), flown(30, 1)>>

\* asteroids at rest: the first two lie over both lasers of the first line
\* (and over each other), the third over the laser of the second line
crossedAsteroids ==
  <<rock(1, 50, 195, 0, 0, 0), rock(2, 50, 170, 0, 0, 3),
    rock(2, 40, 110, 0, 0, 5)>>

\* the lists of one to three different members of seq, in any order
arrangements(seq) ==
  UNION {{[i \in 1..k |-> seq[f[i]]] :
            f \in {g \in [1..k -> 1..Len(seq)] :
                     \A i, j \in 1..k : i # j => g[i] # g[j]}} :
         k \in 1..3}

\* a game in play with lasers and asteroids across each other, in every
\* list order
crossfire ==
  {[Shooting EXCEPT !.ship.lasers = lasers, !.asteroids = asteroids] :
     lasers \in arrangements(crossingLasers),
     asteroids \in arrangements(crossedAsteroids)}

CrossfireInit ==
  /\ state \in crossfire
  /\ ticksLeft = MaxTicks
  /\ inputsLeft = MaxInputs
  /\ frame = frameAtRest
  /\ engine = engineAtRest

\* one call of checkLaserCollision
Resolve ==
  /\ \E r \in Seeds : state' = checkLaserCollision(state, r)
  /\ UNCHANGED <<ticksLeft, inputsLeft, frame, engine>>

CrossfireNext == Resolve

CrossfireSpec == CrossfireInit /\ [][CrossfireNext]_vars

\* the lasers of s, by index, that checkLaserCollision takes out
removedLasers(s, r) ==
  {l \in 1..Len(s.ship.lasers) :
     Cardinality({k \in 1..Len(checkLaserCollision(s, r).ship.lasers) :
                    checkLaserCollision(s, r).ship.lasers[k] = s.ship.lasers[l]})
       < Cardinality({k \in 1..Len(s.ship.lasers) :
                        s.ship.lasers[k] = s.ship.lasers[l]})}

\* the two searches of checkLaserCollision disagree in s: the asteroid it
\* destroys does not overlap the triggering laser, or it removes a laser
\* that does not overlap the destroyed asteroid
disagree(s, r) ==
  /\ laserHit(s) # 0
  /\ \/ ~circleCollision(s.ship.lasers[laserHit(s)],
                         s.asteroids[laserHitAsteroid(s)])
     \/ \E l \in removedLasers(s, r) :
          ~circleCollision(s.ship.lasers[l], s.asteroids[laserHitAsteroid(s)])

\* C28 as stated: the two-pass resolution of checkLaserCollision can drop a
\* laser that hit a different asteroid than the one resolved: among the
\* configurations in which several lasers overlap several asteroids (up to
\* three of each, in any list order, and whatever is left of them after a
\* hit) there is one in which the outer and the inner search disagree: the
\* destroyed asteroid does not overlap the triggering laser, or a laser is
\* removed although it does not overlap the destroyed asteroid.
C28_SearchesCanDisagree ==
  \E s \in crossfire \cup {state} : \E r \in Seeds : disagree(s, r)

\* C28 as the source has it: the two searches never disagree.  The destroyed
\* asteroid overlaps the triggering laser, and the lasers removed are
\* exactly those that overlap the destroyed asteroid: the triggering laser
\* and every other laser over that asteroid, whether or not it lies over a
\* second asteroid as well.  The hit is scored once and makes one
\* explosion, whatever the number of lasers removed.
C28_SearchesAgree ==
  \A r \in Seeds :
    \A t \in {checkLaserCollision(state, r)} :
      /\ ~disagree(state, r)
      /\ laserHit(state) # 0 =>
           \A hit \in {state.asteroids[laserHitAsteroid(state)]} :
             /\ circleCollision(state.ship.lasers[laserHit(state)], hit)
             /\ removedLasers(state, r)
                  = {l \in 1..Len(state.ship.lasers) :
                       circleCollision(state.ship.lasers[l], hit)}
             /\ t.ship.lasers
                  = SelectSeq(state.ship.lasers,
                              LAMBDA laser : ~circleCollision(laser, hit))
             /\ t.score = state.score + POINTS[hit.stage]
             /\ Len(t.explosions) = Len(state.explosions) + 1

\* the first laser in the list lies over the first two asteroids and so
\* does the second laser; a third laser lies over the third asteroid.  The
\* hit destroys the first asteroid and removes the first two lasers: the
\* second asteroid, which both overlapped, stays in the belt
C28_Witness ==
  /\ state.ship.lasers
       = <<crossingLasers[1], crossingLasers[2], crossingLasers[3]>>
  /\ state.asteroids = crossedAsteroids
  /\ overlaps(state) = {<<1, 1>>, <<1, 2>>, <<2, 1>>, <<2, 2>>, <<3, 3>>}
  /\ \A r \in Seeds :
       /\ checkLaserCollision(state, r).ship.lasers = <<crossingLasers[3]>>
       /\ checkLaserCollision(state, r).asteroids[1] = crossedAsteroids[2]
       /\ removedLasers(state, r) = {1, 2}

\* the number of hits of a tick from s: a ship hit and a laser hit in a
\* Playing tick, none in any other
hitsIn(s, r) ==
  IF ~isPlaying(s) THEN 0
  ELSE (IF overShip(afterMoves(s)) # {} THEN 1 ELSE 0)
         + (IF overlaps(afterShipCollision(s, r)) # {} THEN 1 ELSE 0)

\* C29: the explosions list is never compacted or reordered.  An explosion
\* stays in the list, at its index, when its particles are gone; the list
\* never gets shorter, and a step lengthens it by the number of ship hits
\* and laser hits of that tick (none in an input step), so that from the
\* empty list of a new game its length is the number of hits so far: at
\* least the number of lives lost, and exactly that while nothing has been
\* shot.  An explosion enters the list with PARTICLE_COUNT particles and the
\* number of its particles never increases.
C29_ExplosionsNeverCompacted ==
  /\ [](/\ Len(state.explosions) >= createGameState(0).lives - state.lives
        /\ state.score = 0 => Len(state.explosions) = createGameState(0).lives - state.lives)
  /\ [][\A old \in {state.explosions} :
          \A new \in {state'.explosions} :
            /\ Len(new) >= Len(old)
            /\ \A i \in 1..Len(old) :
                 /\ new[i].x = old[i].x
                 /\ new[i].y = old[i].y
                 /\ Len(new[i].particles) <= Len(old[i].particles)
            /\ \A i \in (Len(old) + 1)..Len(new) :
                 Len(new[i].particles) = PARTICLE_COUNT
            /\ \E r \in Seeds :
                 Len(new) - Len(old)
                   = IF inputsLeft' = inputsLeft THEN hitsIn(state, r) ELSE 0
       ]_vars

\* two explosions without particles are still in the list, ahead of one
\* that a laser hit has just added with all its particles
C29_Witness ==
  /\ Len(state.explosions) = 3
  /\ state.explosions[1].particles = <<>>
  /\ state.explosions[2].particles = <<>>
  /\ Len(state.explosions[3].particles) = PARTICLE_COUNT
  /\ state.score = 20
  /\ state.lives = 1

----------------------------------------------------------------------------
(* gameLoop, lines 657-672, dispatched frame after frame without input to   *)
(* games whose asteroids are at rest.                                       *)

\* the explosion of createExplosion after the animateExplosions of the tick
\* that made it
justMade(x, y, r) ==
  animateExplosions([explosions |-> <<createExplosion(x, y, r)>>]).explosions[1]

\* the belt after a stage-1 and a stage-2 asteroid were destroyed, every
\* asteroid at rest; one of the stage-3 children lies d pixels from the
\* centre in direction a
beltAtRest(a, d) ==
  << rock(1, 50, 195, 0, 0, 0), rock(1, 75, 220, 0, 0, 9),
     rock(1, 10, 300, 0, 0, 4), rock(2, 40, 120, 0, 0, 3),
     rock(3, a, d, 0, 0, 5), rock(3, 100, 200, 0, 0, 2) >>

\* the second ship has just been lost to a stage-2 asteroid: the last ship
\* starts to blink with a child of that asteroid over it
Rammed(r) ==
  [ score |-> 0, lives |-> 1, level |-> 1,
    ship |-> createShip,
    asteroids |-> beltAtRest(60, 15),
    explosions |-> spent(1) \o <<justMade(noseX(createShip),
                                          noseY(createShip), r)>> ]

\* a stage-1 and a stage-2 asteroid have been shot, the second in the tick
\* before; the ship is at rest and a laser is about to enter a stage-3
\* asteroid
Shot(r) ==
  [ score |-> 70, lives |-> 3, level |-> 1,
    ship |-> [playingShip EXCEPT !.lasers = <<flown(30, 1)>>,
                                 !.canShoot = FALSE],
    asteroids |-> beltAtRest(30, 45),
    explosions |-> spent(1) \o <<justMade(polarX(40, 100),
                                          polarY(40, 100), r)>> ]

FadeInit ==
  /\ \E r \in Seeds : state \in {Rammed(r), Shot(r)}
  /\ ticksLeft = MaxTicks
  /\ inputsLeft = MaxInputs
  /\ frame = frameAtRest
  /\ engine = engineAtRest

\* a frame: the loop of GameBoard dispatches gameLoop
FadeTick ==
  /\ \E r \in Seeds : /\ gameLoopReturns(state, r)
                       /\ state' = reducer(state, "gameLoop", r)
  /\ UNCHANGED <<ticksLeft, inputsLeft, frame, engine>>

FadeNext == FadeTick

\* the frame loop requests the next frame before it dispatches gameLoop, so
\* gameLoop keeps being dispatched
FadeSpec == FadeInit /\ [][FadeNext]_vars /\ WF_vars(FadeTick)

\* C30: no particle persists indefinitely.  gameLoop runs animateExplosions
\* in all three modes (GameOver, Spawning, Playing): every tick lowers the
\* alpha of every particle by its decay, which is at least
\* PARTICLE_DECAY_MIN, and removes the particle whose alpha would not stay
\* above its decay, so a particle lives fewer than 1 / decay ticks; under
\* repeated gameLoop ticks every explosion eventually has no particles.
C30_NoParticlePersists ==
  /\ [](\A i \in 1..Len(state.explosions) :
          \A k \in 1..Len(state.explosions[i].particles) :
            \A p \in {state.explosions[i].particles[k]} :
              /\ p.decay >= PARTICLE_DECAY_MIN
              /\ p.alpha > p.decay
              /\ (1000 - p.alpha) % p.decay = 0
              /\ ((1000 - p.alpha) \div p.decay) * p.decay < 1000)
  /\ [][\A i \in 1..Len(state.explosions) :
          \A k \in 1..Len(state'.explosions[i].particles) :
            \E q \in 1..Len(state.explosions[i].particles) :
              /\ state'.explosions[i].particles[k].decay
                   = state.explosions[i].particles[q].decay
              /\ state'.explosions[i].particles[k].alpha
                   = state.explosions[i].particles[q].alpha
                       - state.explosions[i].particles[q].decay]_vars
  /\ \A i \in 1..MaxExplosions :
       (Len(state.explosions) >= i)
         ~> (Len(state.explosions) >= i
               /\ state.explosions[i].particles = <<>>)

\* the game is over: the explosion of the last ship has lost all its
\* particles in game-over ticks, the one before it in the ticks of the
\* blinking ship
C30_Witness ==
  /\ isGameOver(state)
  /\ Len(state.explosions) = 3
  /\ \A i \in 1..3 : state.explosions[i].particles = <<>>

\* the polygon of an asteroid is well formed: a whole number of vertices
\* from ASTEROIDS_VERT / 2 to 1.5 * ASTEROIDS_VERT, one offset for each,
\* every offset (in hundredths) from 1 - ASTEROID_JAG to 1 + ASTEROID_JAG
wellFormed(a) ==
  /\ a.vert \in Nat
  /\ 2 * a.vert >= ASTEROIDS_VERT
  /\ 2 * a.vert <= 3 * ASTEROIDS_VERT
  /\ a.vert > 0
  /\ DOMAIN a.offsets = 1..a.vert
  /\ \A j \in 1..a.vert :
       /\ a.offsets[j] >= 100 - ASTEROID_JAG
       /\ a.offsets[j] <= 100 + ASTEROID_JAG

\* C31: a zero-vertex asteroid polygon cannot be constructed.  createAsteroid
\* always produces a whole vertex count from ASTEROIDS_VERT / 2 to
\* 1.5 * ASTEROIDS_VERT (5 to 15), exactly that many offsets, and offsets
\* from 1 - ASTEROID_JAG to 1 + ASTEROID_JAG: wherever in the stream of
\* Math.random() it starts to read, for every stage, and so for every
\* asteroid of every belt of a game.
C31_PolygonWellFormed ==
  [](/\ \A r \in 0..(Len(RandomStream) - 1) :
          \A stage \in 1..3 :
            wellFormed(createAsteroid(state.ship.x, state.ship.y,
                                      state.level, stage, r))
     /\ \A i \in 1..Len(state.asteroids) : wellFormed(state.asteroids[i]))

\* the belt made for level 2 holds an asteroid with the most vertices
\* there can be and an asteroid with the fewest
C31_Witness ==
  /\ state.level = 2
  /\ \E i, j \in 1..Len(state.asteroids) :
       /\ state.asteroids[i].vert = 15
       /\ state.asteroids[j].vert = 5

\* C32: the asteroid list is never empty.  It holds an asteroid in the state
\* of a new game and in every state any sequence of actions leads to: a
\* Playing tick whose collisions destroy the last asteroid (by the laser or
\* by the ship) ends, in the same tick, with the belt of the next level,
\* also when that tick takes the last life.
C32_BeltNeverEmpty ==
  /\ [](Len(state.asteroids) > 0)
  /\ [][(/\ isPlaying(state)
          /\ inputsLeft' = inputsLeft
          /\ \E r \in Seeds : Len(afterCollisions(state, r).asteroids) = 0)
         => /\ state'.level = state.level + 1
            /\ Len(state'.asteroids) = ASTEROIDS_NUM + state'.level]_vars

\* the tick that took the last life also shot the last asteroid of level 1:
\* the game is over with the five asteroids of level 2
C32_Witness ==
  /\ state.lives = 0
  /\ state.level = 2
  /\ state.score = 2010
  /\ Len(state.asteroids) = 5

\* C33: at most one asteroid is destroyed per gameLoop tick.  A tick in
\* which checkShipCollision fragments an asteroid (lives > 1) leaves the new
\* ship without lasers, so checkLaserCollision does nothing; a ship
\* collision on the last life removes no asteroid.  So the belt at the end
\* of the collisions is the moved belt, or the moved belt without one
\* asteroid and with that asteroid's 0 or 2 children appended, and the belt
\* at the end of the tick is that belt or, when it is empty, a new belt.
C33_OneDestructionPerTick ==
  [](isPlaying(state) =>
       \A r \in Seeds :
         \A s \in {afterMoves(state)} :
           \A rammed \in {checkShipCollision(s, r)} :
             \A shot \in {checkLaserCollision(rammed, r + 3)} :
               /\ (overShip(s) # {} /\ s.lives > 1) =>
                    /\ rammed.ship.lasers = <<>>
                    /\ shot = rammed
               /\ (overShip(s) # {} /\ s.lives = 1) =>
                    rammed.asteroids = s.asteroids
               /\ \/ shot.asteroids = s.asteroids
                  \/ \E hit \in 1..Len(s.asteroids) :
                       /\ SubSeq(shot.asteroids, 1, Len(s.asteroids) - 1)
                            = without(s.asteroids, hit)
                       /\ Len(shot.asteroids) = Len(s.asteroids) - 1
                            + (IF s.asteroids[hit].stage = 3 THEN 0 ELSE 2)
                       /\ \A k \in Len(s.asteroids)..Len(shot.asteroids) :
                            shot.asteroids[k].stage = s.asteroids[hit].stage + 1
               /\ gameLoopReturns(state, r) =>
                    IF shot.asteroids = <<>>
                      THEN Len(gameLoop(state, r).asteroids)
                             = ASTEROIDS_NUM + state.level + 1
                      ELSE gameLoop(state, r).asteroids = shot.asteroids)

\* a ship with a life to spare is about to be hit while its laser lies over
\* an asteroid: the tick fragments the asteroid under the ship only
C33_Witness ==
  /\ isPlaying(state)
  /\ state.lives > 1
  /\ overShip(afterMoves(state)) # {}
  /\ overlaps(afterMoves(state)) # {}
  /\ \A r \in Seeds :
       /\ gameLoop(state, r).score = state.score
       /\ Len(gameLoop(state, r).asteroids) = Len(state.asteroids) + 1

\* C34: the counters are monotone.  In every run from a new game (score 0,
\* level 1, lives 3) lives stays in {0, 1, 2, 3}, never increases and drops
\* by at most 1 per action; level never decreases and rises by at most 1
\* per action; score is never negative, never decreases, is always a
\* multiple of 10 and rises by at most 100 per action; and only gameLoop
\* actions change any of the three.
C34_CountersMonotone ==
  /\ [](/\ \A start \in {createGameState(0)} :
             /\ state.lives \in 0..start.lives
             /\ state.level >= start.level
             /\ state.score >= start.score
        /\ state.score % 10 = 0
        /\ \A a \in (EngineActions \ {"gameLoop"}) \cup UnknownActions :
             \A t \in {reducer(state, a, 0)} :
               /\ t.lives = state.lives
               /\ t.level = state.level
               /\ t.score = state.score)
  /\ [][/\ state'.lives \in {state.lives, state.lives - 1}
        /\ state'.level \in {state.level, state.level + 1}
        /\ state'.score >= state.score
        /\ state'.score <= state.score + 100
        /\ inputsLeft' # inputsLeft =>
             /\ state'.lives = state.lives
             /\ state'.level = state.level
             /\ state'.score = state.score]_vars

\* keys were pressed and the game went on: one tick took the last life,
\* scored the last asteroid of level 1 and began level 2
C34_Witness ==
  /\ inputsLeft = 0
  /\ state.lives = 0
  /\ state.level = 2
  /\ state.score = 2010

\* the gameLoop ticks a ship has still to blink: blinkNum drops with the
\* next tick at blinkTime 0 and then with every 19th tick
ticksToPlay(ship) ==
  IF ship.blinkNum = 0 THEN 0
  ELSE ship.blinkTime + 1 + (ship.blinkNum - 1) * 19

\* what of a ship a spawning phase leaves alone
frozen(ship) ==
  <<ship.x, ship.y, ship.angle, ship.xVelocity, ship.yVelocity>>

\* C35: from a new ship (blinkNum 10, blinkTime 0) the spawning phase lasts
\* exactly 172 gameLoop ticks: blinkNum drops on tick 1 and then on every
\* 19th tick, each spawning tick brings the end one tick nearer, and an
\* input action neither shortens nor lengthens the phase.  During it the
\* ship's position, angle and velocity and all lasers in flight stay as
\* they are.  Lives decrease only in a Playing tick, and the ship that
\* replaces the lost one has its 172 ticks ahead: two decreases of lives
\* are at least 172 gameLoop ticks apart.
C35_SpawningLasts172Ticks ==
  /\ [](/\ createShip.blinkNum = 10
        /\ createShip.blinkTime = 0
        /\ ticksToPlay(createShip) = 172
        /\ isSpawning(state) = (ticksToPlay(state.ship) > 0)
        /\ ticksToPlay(state.ship) <= 172)
  /\ [][/\ (isSpawning(state) /\ ~isGameOver(state)) =>
             /\ ticksToPlay(state'.ship)
                  = IF inputsLeft' = inputsLeft
                      THEN ticksToPlay(state.ship) - 1
                      ELSE ticksToPlay(state.ship)
             /\ frozen(state'.ship) = frozen(state.ship)
             /\ SubSeq(state'.ship.lasers, 1, Len(state.ship.lasers))
                  = state.ship.lasers
             /\ state'.lives = state.lives
        /\ state'.lives < state.lives =>
             /\ isPlaying(state)
             /\ inputsLeft' = inputsLeft
             /\ state'.lives > 0 => /\ state'.ship = createShip
                                    /\ ticksToPlay(state'.ship) = 172]_vars

\* the ship that replaced the first one has blinked through its 172 ticks,
\* keys were pressed meanwhile, and it plays
C35_Witness ==
  /\ state.lives = 2
  /\ state.level = 1
  /\ state.score = 0
  /\ Len(state.explosions) = 1
  /\ isPlaying(state)
  /\ inputsLeft = 0

\* the weight of a belt: 7 for a stage-1 asteroid, 3 for a stage-2 asteroid,
\* 1 for a stage-3 asteroid
RECURSIVE weight(_)
weight(belt) ==
  IF belt = <<>> THEN 0
  ELSE <<7, 3, 1>>[Head(belt).stage] + weight(Tail(belt))

\* the asteroids a tick from s destroys: the one under a ship that has a
\* life to spare, or else the one under a laser
destroyedIn(s, r) ==
  IF ~isPlaying(s) THEN 0
  ELSE IF overShip(afterMoves(s)) # {} /\ s.lives > 1 THEN 1
  ELSE IF overlaps(afterShipCollision(s, r)) # {} THEN 1
  ELSE 0

\* C36: belt weight.  With weight 7 for a stage-1, 3 for a stage-2 and 1 for
\* a stage-3 asteroid, the belt made for level L weighs 7 * (3 + L); every
\* destruction of an asteroid, by the laser or by the ship, lowers the
\* weight by exactly 1, and nothing else changes it until the belt is
\* replaced, which happens when the weight has come to 0.  So a belt never
\* holds more than 4 * (3 + L) asteroids, and it is cleared after exactly
\* 7 * (3 + L) destructions: in level 1, while the ship has a life, the
\* weight is 28 less the number of explosions.
C36_BeltWeight ==
  /\ [](/\ weight(state.asteroids) <= 7 * (3 + state.level)
        /\ weight(state.asteroids) >= Len(state.asteroids)
        /\ Len(state.asteroids) <= 4 * (3 + state.level)
        /\ (state.level = 1 /\ state.lives > 0) =>
             weight(state.asteroids) = 28 - Len(state.explosions))
  /\ [][\E r \in Seeds :
          IF inputsLeft' # inputsLeft
            THEN weight(state'.asteroids) = weight(state.asteroids)
            ELSE IF state'.level = state.level
              THEN weight(state'.asteroids)
                     = weight(state.asteroids) - destroyedIn(state, r)
              ELSE /\ weight(state.asteroids) = destroyedIn(state, r)
                   /\ weight(state'.asteroids) = 7 * (3 + state'.level)]_vars

\* an asteroid of each stage has been destroyed: the belt of 26 left by two
\* collisions weighs 23
C36_Witness ==
  /\ state.score = 170
  /\ state.level = 1
  /\ Len(state.explosions) = 5
  /\ weight(state.asteroids) = 23

----------------------------------------------------------------------------
(* shootLaser, enableLaser and gameLoop dispatched to a ship at rest among  *)
(* asteroids at rest, frame after frame.                                    *)

\* five asteroids have been destroyed: three stage-1 asteroids are left and
\* two stage-3 asteroids, one of them 100 pixels above the centre
range ==
  << rock(1, 60, 250, 0, 0, 0), rock(1, 108, 250, 0, 0, 9),
     rock(1, 45, 212, 0, 0, 4), rock(3, 30, 100, 0, 0, 5),
     rock(3, 15, 200, 0, 0, 2) >>

\* a ship at rest at (x, y), facing a, that has not fired
gunner(x, y, a) ==
  [ score |-> 320, lives |-> 3, level |-> 1,
    ship |-> [playingShip EXCEPT !.x = x, !.y = y, !.angle = a],
    asteroids |-> range,
    explosions |-> spent(5) ]

\* the ship in the bottom left corner facing along the diagonal, the ship
\* at the centre facing the asteroid above it, and the ship on the right
\* edge facing out
FlightInit ==
  /\ state \in { gunner(0, CANVAS_height * PX, 12),
                  gunner((CANVAS_width * PX) \div 2,
                         (CANVAS_height * PX) \div 2, 30),
                  gunner(CANVAS_width * PX, (CANVAS_height * PX) \div 2, 0) }
  /\ ticksLeft = MaxTicks
  /\ inputsLeft = MaxInputs
  /\ frame = frameAtRest
  /\ engine = engineAtRest

\* a frame: the loop of GameBoard dispatches gameLoop
FlightTick ==
  /\ \E r \in Seeds : /\ gameLoopReturns(state, r)
                       /\ state' = reducer(state, "gameLoop", r)
  /\ UNCHANGED <<ticksLeft, inputsLeft, frame, engine>>

\* the space bar goes down
FlightShoot ==
  /\ inputsLeft > 0
  /\ inputsLeft' = inputsLeft - 1
  /\ state' = reducer(state, "shootLaser", 0)
  /\ UNCHANGED <<ticksLeft, frame, engine>>

\* the space bar goes up
FlightReload ==
  /\ inputsLeft > 0
  /\ inputsLeft' = inputsLeft - 1
  /\ state' = reducer(state, "enableLaser", 0)
  /\ UNCHANGED <<ticksLeft, frame, engine>>

FlightNext ==
  \/ FlightTick
  \/ FlightShoot
  \/ FlightReload

\* the frame loop requests the next frame before it dispatches gameLoop, so
\* gameLoop keeps being dispatched
FlightSpec == FlightInit /\ [][FlightNext]_vars /\ WF_vars(FlightTick)

\* the number of moveLasers calls a laser that nothing hits stays in the
\* list for, up to n
RECURSIVE flightLeft(_, _)
flightLeft(laser, n) ==
  IF n = 0 \/ ~onBoard(laser.x, laser.y) THEN 0
  ELSE 1 + flightLeft(advanced(laser), n - 1)

\* the ticks a laser needs for the width and the height of the board, one
\* after the other, and two more
LongestFlight ==
  2 + CeilDiv((CANVAS_width + CANVAS_height) * PX * FPS, LASER_SPEED * PX)

\* C37: every laser is eventually removed.  The velocity of a laser is
\* fixed when it is created, with speed LASER_SPEED / FPS a tick, and a
\* laser never wraps: a Playing tick drops the lasers that are off the
\* board, the one created with its spawn point off the board included,
\* which never moves, and moves each other laser by its velocity; a moved
\* laser that is not in the list after the tick has hit an asteroid.  So a
\* laser stays in the list for a bounded number of ticks, and under
\* repeated ticks the list is empty again and again.
C37_LasersLeave ==
  /\ [](\A i \in 1..Len(state.ship.lasers) :
          \A laser \in {state.ship.lasers[i]} :
            \A v2 \in {laser.xVelocity * laser.xVelocity
                         + laser.yVelocity * laser.yVelocity} :
              /\ v2 * FPS * FPS > (LASER_SPEED * PX - FPS)
                                     * (LASER_SPEED * PX - FPS)
              /\ v2 * FPS * FPS < (LASER_SPEED * PX + FPS)
                                     * (LASER_SPEED * PX + FPS)
              /\ flightLeft(laser, LongestFlight + 1) <= LongestFlight)
  /\ [][\A old \in {state.ship.lasers} : \A new \in {state'.ship.lasers} :
          IF inputsLeft' # inputsLeft
            THEN \/ new = old
                 \/ /\ Len(new) = Len(old) + 1
                    /\ SubSeq(new, 1, Len(old)) = old
                    /\ new[Len(new)].x = noseX(state.ship)
                    /\ new[Len(new)].y = noseY(state.ship)
            ELSE \A kept \in {{i \in 1..Len(old) :
                                   onBoard(old[i].x, old[i].y)}} :
                   /\ Len(new) <= Cardinality(kept)
                   /\ \A j \in 1..Len(new) :
                        \E i \in kept : new[j] = advanced(old[i])
                   /\ \A i \in kept :
                        \/ \E j \in 1..Len(new) : new[j] = advanced(old[i])
                        \/ \E k \in 1..Len(moveAsteroids(state).asteroids) :
                             circleCollision(advanced(old[i]),
                               moveAsteroids(state).asteroids[k])]_vars
  /\ []<>(state.ship.lasers = <<>>)

\* the laser fired from the bottom left corner along the diagonal has left
\* the board, and the laser fired after it is two ticks from the top edge
C37_Witness ==
  /\ state.ship.x = 0
  /\ inputsLeft = 0
  /\ Len(state.ship.lasers) = 1
  /\ flightLeft(state.ship.lasers[1], LongestFlight) = 2

----------------------------------------------------------------------------
(* checkLevelCompleted, lines 646-655, applied to the game whose last       *)
(* asteroid has just been shot, for ships all over the board.               *)

\* the number of steps from one edge of the board to the other in the ship
\* positions tried
MaxBerths == 14

\* the coordinates from 0 to size in MaxBerths steps, and the two ends of
\* the range that wrap leaves the ship in
berths(size) ==
  {0 - createShip.radius, size * PX + createShip.radius}
    \cup {(k * size * PX) \div MaxBerths : k \in 0..MaxBerths}

\* the last asteroid of level 1 has been shot with the ship at (x, y)
cleared(x, y) ==
  [ score |-> 2080, lives |-> 3, level |-> 1,
    ship |-> [playingShip EXCEPT !.x = x, !.y = y],
    asteroids |-> <<>>,
    explosions |-> spent(28) ]

BeltInit ==
  /\ \/ \E r \in 0..(Len(RandomStream) - 1) :
          /\ beltEnds(ASTEROIDS_NUM + 1, createShip, r)
          /\ state = createGameState(r)
     \/ \E x \in berths(CANVAS_width), y \in berths(CANVAS_height) :
          state = cleared(x, y)
  /\ ticksLeft = MaxTicks
  /\ inputsLeft = MaxInputs
  /\ frame = frameAtRest
  /\ engine = engineAtRest

\* gameLoop comes to checkLevelCompleted
Spawn ==
  /\ \E r \in 0..(Len(RandomStream) - 1) :
       /\ Len(state.asteroids) = 0
            => beltEnds(ASTEROIDS_NUM + state.level + 1, state.ship, r)
       /\ state' = checkLevelCompleted(state, r)
  /\ UNCHANGED <<ticksLeft, inputsLeft, frame, engine>>

BeltNext == Spawn

BeltSpec == BeltInit /\ [][BeltNext]_vars

\* the values of Math.floor(Math.random() * size) nearest to the two ends
corners ==
  {0, (CANVAS_width - 1) * PX} \X {0, (CANVAS_height - 1) * PX}

\* C38: a fresh belt never overlaps the ship it was made around.  In the
\* initial state, and when checkLevelCompleted has made a belt,
\* circleCollision(ship, a) is false for every asteroid a of the belt; and
\* for every position wrap can leave the ship in, each coordinate from
\* -radius to size + radius, some position of the board is far enough from
\* the ship to be accepted, so the do .. while can end.
C38_FreshBeltClearOfShip ==
  /\ [](/\ \A i \in 1..Len(state.asteroids) :
             ~circleCollision(state.ship, state.asteroids[i])
        /\ \E c \in corners :
             ~distBetweenPointsLess(state.ship.x, state.ship.y, c[1], c[2],
                                    ASTEROIDS_SIZE[1] * 2 * PX
                                      + state.ship.radius))
  /\ [][Len(state.asteroids) = 0 =>
          /\ Len(state'.asteroids) = ASTEROIDS_NUM + state.level + 1
          /\ state'.level = state.level + 1
          /\ state'.ship = state.ship]_vars

\* a belt has been made around the ship that wrap left beyond the top left
\* corner of the board
C38_Witness ==
  /\ state.level = 2
  /\ Len(state.asteroids) = ASTEROIDS_NUM + 2
  /\ state.ship.x = 0 - state.ship.radius
  /\ state.ship.y = 0 - state.ship.radius

====
